---------------------------- MODULE Spec2Model ----------------------------
(***************************************************************************)
(* Pynance: the Monte Carlo simulation of portfolio values under a         *)
(* correlated geometric Brownian motion, src/montecarlo.py.                *)
(*                                                                         *)
(* Numbers.  A float is an exact rational <<n, d>> in lowest terms with    *)
(* d > 0; NaN is <<0, 0>> and propagates through every operation as it     *)
(* does in IEEE arithmetic.  Rounding, overflow and underflow of floats    *)
(* are not modelled.  np.sqrt rounds its result up to a multiple of 1/4.   *)
(* np.exp and np.log are the exponential and the logarithm to base 2,      *)
(* interpolated linearly between consecutive powers of two: Exp is         *)
(* positive and strictly increasing, Exp(0) = 1, and Log is its inverse.   *)
(***************************************************************************)
EXTENDS Integers, Sequences, FiniteSets, TLC

(***************************************************************************)
(* Bounds of the model.                                                    *)
(***************************************************************************)
MaxT == 2
MaxSims == 2
MaxReturns == 3
MaxScheduled == 2

\* ------------------------------------------------------------------------
\* Floats
\* ------------------------------------------------------------------------
NaN == <<0, 0>>

IsNaN(x) == x[2] = 0

Abs(n) == IF n < 0 THEN -n ELSE n

RECURSIVE GCD(_, _)
GCD(a, b) == IF b = 0 THEN a ELSE GCD(b, a % b)

\* The float n/d, in lowest terms with a positive denominator.
R(n, d) ==
    IF d = 0 THEN NaN
    ELSE LET g == GCD(Abs(n), Abs(d))
             s == IF d < 0 THEN -1 ELSE 1
         IN  <<(s * n) \div g, (s * d) \div g>>

Zero == <<0, 1>>
One == <<1, 1>>
Half == <<1, 2>>

RAdd(a, b) == IF IsNaN(a) \/ IsNaN(b) THEN NaN
              ELSE R(a[1] * b[2] + b[1] * a[2], a[2] * b[2])

RNeg(a) == IF IsNaN(a) THEN NaN ELSE <<-a[1], a[2]>>

RSub(a, b) == RAdd(a, RNeg(b))

RMul(a, b) == IF IsNaN(a) \/ IsNaN(b) THEN NaN
              ELSE R(a[1] * b[1], a[2] * b[2])

\* x / 0 arises in this program only as 0 / 0 (a mean or a covariance over
\* too few rows), which is NaN.
RDiv(a, b) == IF IsNaN(a) \/ IsNaN(b) \/ b[1] = 0 THEN NaN
              ELSE R(a[1] * b[2], a[2] * b[1])

\* Comparisons are false when an operand is NaN.
RLt(a, b) == ~IsNaN(a) /\ ~IsNaN(b) /\ a[1] * b[2] < b[1] * a[2]
RLe(a, b) == ~IsNaN(a) /\ ~IsNaN(b) /\ a[1] * b[2] <= b[1] * a[2]
RGe(a, b) == RLe(b, a)
RGt(a, b) == RLt(b, a)

\* np.minimum: NaN if either operand is.
RMin(a, b) == IF IsNaN(a) \/ IsNaN(b) THEN NaN ELSE IF RLe(a, b) THEN a ELSE b

RECURSIVE Pow2(_)
Pow2(k) == IF k <= 0 THEN 1 ELSE 2 * Pow2(k - 1)

\* floor(n / d) for d > 0 (\div rounds towards minus infinity).
Floor(x) == x[1] \div x[2]

\* The first-order step 1 + x in place of the exponential.
ExpEuler(x) == RAdd(One, x)

\* np.exp: 2^k * (1 + f) for x = k + f, k an integer, 0 <= f < 1.
Exp(x) ==
    IF IsNaN(x) THEN NaN
    ELSE LET k == Floor(x)
             f == RSub(x, <<k, 1>>)
             p == IF k >= 0 THEN <<Pow2(k), 1>> ELSE <<1, Pow2(-k)>>
         IN  RMul(p, RAdd(One, f))

\* The k with 2^k <= x < 2^(k+1), for x > 0.
RECURSIVE Log2Floor(_)
Log2Floor(x) ==
    IF RLt(x, One) THEN Log2Floor(RMul(x, <<2, 1>>)) - 1
    ELSE IF RGe(x, <<2, 1>>) THEN Log2Floor(RMul(x, Half)) + 1
    ELSE 0

\* np.log: k + (x / 2^k - 1) for 2^k <= x < 2^(k+1); NaN for x <= 0 (numpy
\* gives -inf at 0; no value of this model is 0 where a log is taken).
Log(x) ==
    IF IsNaN(x) \/ x[1] <= 0 THEN NaN
    ELSE LET k == Log2Floor(x)
             p == IF k >= 0 THEN <<1, Pow2(k)>> ELSE <<Pow2(-k), 1>>
         IN  RAdd(<<k, 1>>, RSub(RMul(x, p), One))

\* The least g >= 0 with g * g * d >= n * 16: sqrt(n / d) rounded up to a
\* multiple of 1/4.
RECURSIVE SqrtUp(_, _, _)
SqrtUp(n, d, g) == IF g * g * d >= n * 16 THEN g ELSE SqrtUp(n, d, g + 1)

\* np.sqrt of a float >= 0.
Sqrt(x) == IF IsNaN(x) \/ x[1] < 0 THEN NaN ELSE R(SqrtUp(x[1], x[2], 0), 4)

\* Sum of a sequence of floats.
RECURSIVE RSum(_)
RSum(s) == IF s = <<>> THEN Zero ELSE RAdd(s[1], RSum(Tail(s)))

\* ------------------------------------------------------------------------
\* State
\* ------------------------------------------------------------------------
VARIABLES
    price_df,      \* the price table of the session
    weights,       \* the weight vector of the session
    np_global,     \* numpy's global generator (np.random.*)
    pc,            \* "idle", or "loop" inside simulate_correlated_gbm
    T_days,        \* arguments of the running call
    n_sims,
    seed,
    rng,           \* the call's generator
    rng0,          \* its state when it was created
    mu, cov, S0, L, drift,
    asset_paths,   \* asset_paths[i][t + 1][n], time index t from 0
    t,             \* the loop variable
    last,          \* the outcome of the call that completed last, while no
                   \* other call has begun
    remembered,    \* an earlier call, moved here from last for comparison
    analysis,      \* the outcome of the last analyze_portfolio
    daily_returns, \* a series of daily returns handed to the helpers
    helper,        \* the last call of a helper of portfolio_analysis.py
    window,        \* the window of PortfolioSelectorGUI: "none", "open",
                   \* "dialog" (confirmed, its dialog shown), "closed"
    selected_tickers,
    selected_weights,
    portfolio_list, \* the rows of the listbox, <<ticker, weight shown>>
    results_list,  \* the ticker of row 0 of the search results, "" if empty
    scheduled,     \* the add_ticker callbacks that root.after holds, each
                   \* with the ticker of the quick_add_ticker that made it
    portfolio,     \* what the construction of the portfolio last returned
    main,          \* the variables of main(): data, tickers, weights,
                   \* portfolio_series, model, scenario, current_period
    loop,          \* the menu loop: "prompt", "terminated" by an exception
                   \* that left main(), "exited" by choice 9
    turn,          \* the last turn of the loop: the choice typed, the period
                   \* or scenario typed after it, the functions called, the
                   \* tickers the weights were applied to, what was printed,
                   \* the exception
    files          \* the files written, each with the function that wrote it

vars == <<price_df, weights, np_global, pc, T_days, n_sims, seed, rng, rng0,
          mu, cov, S0, L, drift, asset_paths, t, last, remembered,
          analysis, daily_returns, helper,
          window, selected_tickers, selected_weights, portfolio_list,
          results_list, scheduled, portfolio, main, loop, turn, files>>

session == <<price_df, weights>>
analytics == <<analysis, daily_returns, helper>>
gui == <<window, selected_tickers, selected_weights, portfolio_list, results_list,
         scheduled>>
construction == <<gui, portfolio>>
application == <<main, loop, turn, files>>
locals == <<T_days, n_sims, seed, rng, rng0, mu, cov, S0, L, drift, asset_paths, t>>

\* ------------------------------------------------------------------------
\* Inputs: the price table built by main (one Close column per ticker, the
\* rows in date order, NaN where a ticker has no observation on a date)
\* and the weight vector of the portfolio.
\* ------------------------------------------------------------------------
F(n) == <<n, 1>>

\* Two assets, three complete returns, a positive-definite covariance.
TableTwo == [ncols |-> 2, last_date |-> 4,
             rows |-> << <<F(2), F(4)>>, <<F(4), F(4)>>,
                         <<F(2), F(8)>>, <<F(2), F(4)>> >>]

\* Two assets whose returns are equal on every date: a singular covariance.
TableSingular == [ncols |-> 2, last_date |-> 4,
                  rows |-> << <<F(2), F(1)>>, <<F(4), F(2)>>,
                              <<F(2), F(1)>>, <<F(2), F(1)>> >>]

\* One asset.
TableOne == [ncols |-> 1, last_date |-> 4,
             rows |-> << <<F(8)>>, <<F(8)>>, <<F(2)>>, <<F(1)>> >>]

\* The first ticker has no observation on the last date (the tickers trade
\* on different calendars and pd.concat aligns them on the union of dates).
TableGap == [ncols |-> 2, last_date |-> 5,
             rows |-> << <<F(2), F(4)>>, <<F(4), F(4)>>, <<F(2), F(8)>>,
                         <<F(2), F(4)>>, <<NaN, F(4)>> >>]

\* The second ticker has its first observation on the last date: one date is
\* common to both tickers and no row of log returns is complete.
TableShort == [ncols |-> 2, last_date |-> 3,
               rows |-> << <<F(2), NaN>>, <<F(4), NaN>>, <<F(2), F(8)>> >>]

\* One asset that rose on every date; the bar of the last date has no Close
\* yet (load_data keeps the rows of yf.download as they come).
TableRally == [ncols |-> 1, last_date |-> 4,
               rows |-> << <<F(1)>>, <<F(2)>>, <<F(8)>>, <<NaN>> >>]

\* One asset that doubles on every date: a constant daily return.
TableSteady == [ncols |-> 1, last_date |-> 4,
                rows |-> << <<F(1)>>, <<F(2)>>, <<F(4)>>, <<F(8)>> >>]

PriceTables == {TableTwo, TableSingular, TableOne, TableGap, TableShort, TableRally,
                TableSteady}

\* The tables whose missing values are dates without a row in data[ticker].
CalendarTables == PriceTables \ {TableRally}

WeightVectors == { <<R(1, 2), R(1, 2)>>, <<R(1, 4), R(3, 4)>>, <<One>> }

NoSeed == -1
Seeds == {42, 7, NoSeed}

\* ------------------------------------------------------------------------
\* The random generators.  A generator is a state in 0 .. 3 stepped by a
\* full-period congruential map; each standard-normal variate consumes one
\* step and is read off the new state.
\* ------------------------------------------------------------------------
RngStates == 0 .. 3

RngNext(s) == (5 * s + 3) % 4

\* A generator that shares the state of numpy's global generator.
default_rng_global(sd, entropy) == np_global

\* np.random.default_rng(seed): the state is a function of the seed alone;
\* without a seed it is drawn from the operating system's entropy.
default_rng(sd, entropy) == IF sd = NoSeed THEN entropy ELSE sd % 4

RECURSIVE RngSkip(_, _)
RngSkip(s, k) == IF k <= 0 THEN s ELSE RngSkip(RngNext(s), k - 1)

NormalOf(s) == CASE s = 0 -> F(-1) [] s = 1 -> F(1) [] s = 2 -> F(0) [] OTHER -> F(1)

\* rng.standard_normal((rows, cols)) from generator state s: the matrix,
\* filled in row-major order.
standard_normal(s, nrows, ncols) ==
    [i \in 1 .. nrows |->
        [n \in 1 .. ncols |-> NormalOf(RngSkip(s, (i - 1) * ncols + n))]]

\* ------------------------------------------------------------------------
\* Return estimation (montecarlo.py lines 20-22)
\* ------------------------------------------------------------------------
HasNaN(row) == \E i \in 1 .. Len(row) : IsNaN(row[i])

\* np.log(price_df / price_df.shift(1)): the first row has no predecessor.
LogRatio(df) ==
    [k \in 1 .. Len(df.rows) |->
        [i \in 1 .. df.ncols |->
            IF k = 1 THEN NaN
            ELSE Log(RDiv(df.rows[k][i], df.rows[k - 1][i]))]]

\* .dropna(): the rows without a missing value.
Dropna(rows) == SelectSeq(rows, LAMBDA r : ~HasNaN(r))

LogRet(df) == Dropna(LogRatio(df))

Column(rows, i) == [k \in 1 .. Len(rows) |-> rows[k][i]]

Mean(col) == RDiv(RSum(col), F(Len(col)))

\* The means without the ceiling.
MuUncapped(df) == [i \in 1 .. df.ncols |-> Mean(Column(LogRet(df), i))]

\* logret.mean() capped at 0.0003.
Mu(df) == [i \in 1 .. df.ncols |-> RMin(Mean(Column(LogRet(df), i)), R(3, 10000))]

\* logret.cov(): the sample covariance (divisor n - 1), NaN under two rows.
CovEntry(rows, i, j) ==
    LET n == Len(rows)
        mi == Mean(Column(rows, i))
        mj == Mean(Column(rows, j))
    IN  IF n < 2 THEN NaN
        ELSE RDiv(RSum([k \in 1 .. n |->
                           RMul(RSub(rows[k][i], mi), RSub(rows[k][j], mj))]),
                  F(n - 1))

Cov(df) == [i \in 1 .. df.ncols |-> [j \in 1 .. df.ncols |-> CovEntry(LogRet(df), i, j)]]

\* ------------------------------------------------------------------------
\* np.linalg.cholesky (line 26).  The pivots D and the unit lower factor M
\* of c = M D M^T are computed exactly; L = M sqrt(D).  The factorisation
\* fails when a pivot is not positive.
\* ------------------------------------------------------------------------
RECURSIVE Pivot(_, _), UnitLower(_, _, _)
Pivot(c, j) ==
    RSub(c[j][j],
         RSum([k \in 1 .. j - 1 |->
                  RMul(RMul(UnitLower(c, j, k), UnitLower(c, j, k)), Pivot(c, k))]))

UnitLower(c, i, j) ==
    RDiv(RSub(c[i][j],
              RSum([k \in 1 .. j - 1 |->
                       RMul(RMul(UnitLower(c, i, k), UnitLower(c, j, k)), Pivot(c, k))])),
         Pivot(c, j))

\* A factorisation that accepts a zero pivot.
PositiveSemiDefinite(c) == \A j \in 1 .. Len(c) : RGe(Pivot(c, j), Zero)

PositiveDefinite(c) == \A j \in 1 .. Len(c) : RGt(Pivot(c, j), Zero)

Cholesky(c) ==
    [i \in 1 .. Len(c) |->
        [j \in 1 .. Len(c) |->
            IF i = j THEN Sqrt(Pivot(c, j))
            ELSE IF i > j THEN RMul(UnitLower(c, i, j), Sqrt(Pivot(c, j)))
            ELSE Zero]]

\* drift = mu - 0.5 * diag(cov) (lines 27-28).
Drift(m, c) == [i \in 1 .. Len(m) |-> RSub(m[i], RMul(Half, c[i][i]))]

\* A covariance estimated from fewer than two rows: every entry is NaN.
CovIsNaN(c) == \E i \in 1 .. Len(c) : HasNaN(c[i])

\* Lines 20-28 as a function of the price table: the estimates, whether the
\* factorisation succeeds, the factor and the drift.
Estimates ==
    [df \in PriceTables |->
        [mu |-> Mu(df),
         cov |-> Cov(df),
         cov_nan |-> CovIsNaN(Cov(df)),
         positive_definite |-> PositiveDefinite(Cov(df)),
         L |-> Cholesky(Cov(df)),
         drift |-> Drift(Mu(df), Cov(df))]]

\* An entry of np.empty that no statement has written yet.
Uninit == <<1, 0>>

NoCall == [outcome |-> "none"]

\* No helper has been called.
NoHelper == [fn |-> "none", value |-> NaN]

n_assets == price_df.ncols

\* A(i, t, n): asset_paths[i, t, n] with the code's 0-based time index.
PathAt(paths, i, tt, n) == paths[i][tt + 1][n]

\* ------------------------------------------------------------------------
\* simulate_correlated_gbm
\* ------------------------------------------------------------------------
\* np.empty((n_assets, n_steps + 1, n_sims)) followed by
\* asset_paths[:, 0, :] = S0[:, None] (lines 29-30).
InitialPaths(s0, nsteps, nsims) ==
    [i \in 1 .. Len(s0) |->
        [k \in 1 .. nsteps + 1 |->
            [n \in 1 .. nsims |-> IF k = 1 THEN s0[i] ELSE Uninit]]]

\* The factor applied transposed: L.T @ Z.
MatMulTransposed(l, z, nsims) ==
    [i \in 1 .. Len(l) |->
        [n \in 1 .. nsims |->
            RSum([j \in 1 .. Len(l) |-> RMul(l[j][i], z[j][n])])]]

\* correlated = L @ Z (line 35).
MatMul(l, z, nsims) ==
    [i \in 1 .. Len(l) |->
        [n \in 1 .. nsims |->
            RSum([j \in 1 .. Len(l) |-> RMul(l[i][j], z[j][n])])]]

\* The update written one column too early: asset_paths[:, t - 1, :] = ...
UpdatedPathsShifted(paths, tt, dr, corr) ==
    [i \in 1 .. Len(paths) |->
        [paths[i] EXCEPT ![tt] =
            [n \in 1 .. Len(paths[i][tt]) |->
                RMul(PathAt(paths, i, tt - 1, n), Exp(RAdd(dr[i], corr[i][n])))]]]

\* asset_paths[:, t, :] = asset_paths[:, t - 1, :] * np.exp(drift[:, None]
\* + correlated) (line 37).
UpdatedPaths(paths, tt, dr, corr) ==
    [i \in 1 .. Len(paths) |->
        [paths[i] EXCEPT ![tt + 1] =
            [n \in 1 .. Len(paths[i][tt]) |->
                RMul(PathAt(paths, i, tt - 1, n), Exp(RAdd(dr[i], corr[i][n])))]]]

\* The weights applied to the assets in reverse order.
TensordotReversed(paths, w) ==
    [k \in 1 .. Len(paths[1]) |->
        [n \in 1 .. Len(paths[1][k]) |->
            RSum([i \in 1 .. Len(paths) |-> RMul(paths[i][k][n], w[Len(w) + 1 - i])])]]

\* np.tensordot(asset_paths, weights, axes=(0, 0)) (line 41).
Tensordot(paths, w) ==
    [k \in 1 .. Len(paths[1]) |->
        [n \in 1 .. Len(paths[1][k]) |->
            RSum([i \in 1 .. Len(paths) |-> RMul(paths[i][k][n], w[i])])]]

\* The values of xs in ascending order.
RECURSIVE Insert(_, _)
Insert(v, sorted) ==
    IF sorted = <<>> THEN <<v>>
    ELSE IF RLe(v, sorted[1]) THEN <<v>> \o sorted
    ELSE <<sorted[1]>> \o Insert(v, Tail(sorted))

RECURSIVE Sorted(_)
Sorted(xs) == IF xs = <<>> THEN <<>> ELSE Insert(xs[1], Sorted(Tail(xs)))

\* np.percentile(xs, q) with numpy's default linear interpolation, for a
\* non-empty xs: NaN when xs holds a NaN.
Percentile(xs, q) ==
    IF HasNaN(xs) THEN NaN
    ELSE LET srt == Sorted(xs)
             pos == (Len(xs) - 1) * q
             lo == pos \div 100
             frac == R(pos % 100, 100)
             hi == IF lo + 2 <= Len(xs) THEN lo + 2 ELSE lo + 1
         IN  RAdd(srt[lo + 1], RMul(frac, RSub(srt[hi], srt[lo + 1])))

\* The other tail: losses[losses <= var95].
TailLossesBelow(losses, var95) == SelectSeq(losses, LAMBDA v : RLe(v, var95))

\* losses[losses >= var95]
TailLosses(losses, var95) == SelectSeq(losses, LAMBDA v : RGe(v, var95))

\* One date too few: periods=n_steps.
SimDatesShort(df, nsteps) == [k \in 1 .. nsteps |-> df.last_date + k - 1]

\* pd.bdate_range(start=last_date, periods=n_steps + 1): dates are counted
\* in business days.
SimDates(df, nsteps) == [k \in 1 .. nsteps + 1 |-> df.last_date + k - 1]

\* Lines 40-67, for weights of the right length and a percentile that
\* returned: the result dictionary.
Result(paths, w, df, nsteps, var95) ==
    LET portfolio_paths == Tensordot(paths, w)
        terminal_vals == portfolio_paths[Len(portfolio_paths)]
        initial_vals == portfolio_paths[1]
        nsims == Len(terminal_vals)
        ratio == [n \in 1 .. nsims |-> RDiv(terminal_vals[n], initial_vals[n])]
        terminal_log_returns == [n \in 1 .. nsims |-> Log(ratio[n])]
        losses == [n \in 1 .. nsims |-> RNeg(terminal_log_returns[n])]
    IN  [asset_paths |-> paths,
         portfolio_paths |-> portfolio_paths,
         terminal_log_returns |-> terminal_log_returns,
         terminal_returns |-> [n \in 1 .. nsims |-> RSub(ratio[n], One)],
         VaR_95 |-> var95,
         CVaR_95 |-> Mean(TailLosses(losses, var95)),
         dates |-> SimDates(df, nsteps)]

\* The losses the percentile is taken of (line 51).
Losses(paths, w) ==
    LET portfolio_paths == Tensordot(paths, w)
        terminal_vals == portfolio_paths[Len(portfolio_paths)]
        initial_vals == portfolio_paths[1]
    IN  [n \in 1 .. Len(terminal_vals) |->
            RNeg(Log(RDiv(terminal_vals[n], initial_vals[n])))]

Args == [T_days |-> T_days, n_sims |-> n_sims, seed |-> seed]

Raised(args, r0, error, line, steps) ==
    [outcome |-> "raised", args |-> args, rng0 |-> r0, error |-> error,
     line |-> line, steps |-> steps]

Returned(args, r0, steps, result) ==
    [outcome |-> "returned", args |-> args, rng0 |-> r0, steps |-> steps,
     result |-> result]

\* The frame of the call is gone.
Leave ==
    /\ pc' = "idle"
    /\ T_days' = 0 /\ n_sims' = 0 /\ seed' = NoSeed /\ rng' = 0 /\ rng0' = 0
    /\ mu' = <<>> /\ cov' = <<>> /\ S0' = <<>> /\ L' = <<>> /\ drift' = <<>>
    /\ asset_paths' = <<>> /\ t' = 0

\* Lines 19-30: the generator, the estimates, the factorisation and the
\* allocation of the paths with their first column.  On a covariance of
\* NaN the factorisation raises or returns a factor of NaN, depending on
\* the LAPACK the build of numpy links (the pivot test ajj <= 0 is false
\* for NaN; reference LAPACK tests for NaN as well).
Enter(days, sims, sd, entropy) ==
    /\ pc = "idle"
    /\ LET args == [T_days |-> days, n_sims |-> sims, seed |-> sd]
           r0 == default_rng(sd, entropy)
           est == Estimates[price_df]
           s0 == price_df.rows[Len(price_df.rows)]
       IN  \/ /\ ~est.positive_definite
              /\ last' = Raised(args, r0, "LinAlgError", 26, 0)
              /\ Leave
           \/ /\ est.positive_definite \/ est.cov_nan
              /\ IF days + 1 < 0 \/ sims < 0
                 THEN /\ last' = Raised(args, r0, "ValueError", 29, 0)
                      /\ Leave
                 ELSE IF days + 1 = 0
                 THEN /\ last' = Raised(args, r0, "IndexError", 30, 0)
                      /\ Leave
                 ELSE /\ pc' = "loop"
                      /\ T_days' = days /\ n_sims' = sims /\ seed' = sd
                      /\ rng' = r0 /\ rng0' = r0
                      /\ mu' = est.mu /\ cov' = est.cov /\ S0' = s0
                      /\ L' = est.L
                      /\ drift' = est.drift
                      /\ asset_paths' = InitialPaths(s0, days, sims)
                      /\ t' = 1
                      /\ last' = NoCall
    /\ UNCHANGED <<session, np_global, remembered, analytics, construction,
                   application>>

\* One iteration of the loop, lines 33-37.
Step ==
    /\ pc = "loop"
    /\ t <= T_days
    /\ LET Z == standard_normal(rng, n_assets, n_sims)
           correlated == MatMul(L, Z, n_sims)
       IN  /\ asset_paths' = UpdatedPaths(asset_paths, t, drift, correlated)
           /\ rng' = RngSkip(rng, n_assets * n_sims)
    /\ t' = t + 1
    /\ UNCHANGED <<session, np_global, pc, T_days, n_sims, seed, rng0,
                   mu, cov, S0, L, drift, last, remembered, analytics, construction,
                   application>>

\* Lines 40-67 after the loop.  np.tensordot raises on weights of another
\* length than the assets; np.percentile of no values returns NaN or raises
\* an IndexError, depending on the numpy version.
Finish ==
    /\ pc = "loop"
    /\ t > T_days
    /\ \/ /\ Len(weights) # n_assets
          /\ last' = Raised(Args, rng0, "ValueError", 41, t - 1)
       \/ /\ Len(weights) = n_assets
          /\ n_sims = 0
          /\ \/ last' = Raised(Args, rng0, "IndexError", 52, t - 1)
             \/ last' = Returned(Args, rng0, t - 1,
                                 Result(asset_paths, weights, price_df, T_days, NaN))
       \/ /\ Len(weights) = n_assets
          /\ n_sims > 0
          /\ last' = Returned(Args, rng0, t - 1,
                              Result(asset_paths, weights, price_df, T_days,
                                     Percentile(Losses(asset_paths, weights), 95)))
    /\ Leave
    /\ UNCHANGED <<session, np_global, remembered, analytics, construction,
                   application>>

\* A draw from numpy's global generator: np.random.choice in
\* plot_montecarlo_results (line 108).
GlobalDraw ==
    /\ pc = "idle"
    /\ np_global' = RngNext(np_global)
    /\ UNCHANGED <<session, locals, pc, last, remembered, analytics, construction,
                   application>>

\* The observer keeps the seeded call that just returned, to compare a later
\* call with it.
Remember ==
    /\ pc = "idle"
    /\ last.outcome = "returned"
    /\ last.args.seed # NoSeed
    /\ remembered.outcome = "none"
    /\ remembered' = last
    /\ last' = NoCall
    /\ UNCHANGED <<session, np_global, locals, pc, analytics, construction,
                   application>>

\* ------------------------------------------------------------------------
\* Portfolio analytics (portfolio_analysis.py).  A pandas Series is the
\* sequence of its values in date order; its reductions skip NaN.
\* ------------------------------------------------------------------------
\* The values of a Series that are numbers.
NumbersOf(s) == SelectSeq(s, LAMBDA v : ~IsNaN(v))

RECURSIVE RMinSeq(_)
RMinSeq(s) == IF Len(s) = 1 THEN s[1] ELSE RMin(s[1], RMinSeq(Tail(s)))

RECURSIVE RMaxSeq(_)
RMaxSeq(s) ==
    IF Len(s) = 1 THEN s[1]
    ELSE LET m == RMaxSeq(Tail(s)) IN IF RGe(s[1], m) THEN s[1] ELSE m

\* Series.mean(): the mean of the numbers, NaN when there is none.
SeriesMean(s) == Mean(NumbersOf(s))

\* Series.min(): the least of the numbers, NaN when there is none.
SeriesMin(s) == IF NumbersOf(s) = <<>> THEN NaN ELSE RMinSeq(NumbersOf(s))

\* The sample variance (divisor n - 1) of the numbers, NaN under two.
SeriesVar(s) ==
    LET xs == NumbersOf(s)
        m == Mean(xs)
    IN  IF Len(xs) < 2 THEN NaN
        ELSE RDiv(RSum([k \in 1 .. Len(xs) |->
                           RMul(RSub(xs[k], m), RSub(xs[k], m))]),
                  F(Len(xs) - 1))

\* Series.std()
SeriesStd(s) == Sqrt(SeriesVar(s))

\* np.sqrt(252)
Sqrt252 == Sqrt(F(252))

\* The division of two numpy floats: a division by zero gives an infinity,
\* or NaN for 0 / 0, with a warning and no exception.  No arithmetic of
\* this model is applied to an infinity.
PosInf == <<2, 0>>
NegInf == <<-2, 0>>

TrueDivide(a, b) ==
    IF IsNaN(a) \/ IsNaN(b) THEN NaN
    ELSE IF b[1] # 0 THEN RDiv(a, b)
    ELSE IF a[1] > 0 THEN PosInf
    ELSE IF a[1] < 0 THEN NegInf
    ELSE NaN

\* (1 + returns).cumprod(): NaN where the return is NaN, the product of
\* the numbers so far elsewhere.
RECURSIVE CumProdFrom(_, _)
CumProdFrom(s, acc) ==
    IF s = <<>> THEN <<>>
    ELSE IF IsNaN(s[1]) THEN <<NaN>> \o CumProdFrom(Tail(s), acc)
    ELSE LET c == RMul(acc, RAdd(One, s[1]))
         IN  <<c>> \o CumProdFrom(Tail(s), c)

\* The running sum in place of the running product: (1 + returns).cumsum().
CumSum(s) == [k \in 1 .. Len(s) |-> RSum([j \in 1 .. k |-> RAdd(One, s[j])])]

CumProd(s) == CumProdFrom(s, One)

\* The first value in place of the running maximum: cumulative.iloc[0].
RunningFirst(c) == [k \in 1 .. Len(c) |-> c[1]]

\* cumulative.expanding().max(): at each date the greatest number so far,
\* NaN while there is none.
RunningMax(c) ==
    [k \in 1 .. Len(c) |->
        LET seen == NumbersOf(SubSeq(c, 1, k))
        IN  IF seen = <<>> THEN NaN ELSE RMaxSeq(seen)]

\* drawdown = (cumulative - running_max) / running_max (line 105)
Drawdown(s) ==
    LET cumulative == CumProd(s)
        running_max == RunningMax(cumulative)
    IN  [k \in 1 .. Len(s) |->
            TrueDivide(RSub(cumulative[k], running_max[k]), running_max[k])]

\* calculate_max_drawdown (lines 101-106)
calculate_max_drawdown(returns) == SeriesMin(Drawdown(returns))

\* The deviation of all the returns in place of the downside deviation.
SortinoTotalRisk(returns, risk_free_rate) ==
    LET total_risk == RMul(SeriesStd(returns), Sqrt252)
        excess_return == RSub(RMul(SeriesMean(returns), F(252)), risk_free_rate)
    IN  IF total_risk # Zero THEN TrueDivide(excess_return, total_risk) ELSE NaN

\* calculate_sortino_ratio (lines 86-93)
calculate_sortino_ratio(returns, risk_free_rate) ==
    LET downside_returns == SelectSeq(returns, LAMBDA v : RLt(v, Zero))
        downside_risk == RMul(SeriesStd(downside_returns), Sqrt252)
        excess_return == RSub(RMul(SeriesMean(returns), F(252)), risk_free_rate)
    IN  IF Len(downside_returns) = 0 THEN NaN
        ELSE IF downside_risk # Zero THEN TrueDivide(excess_return, downside_risk)
        ELSE NaN

\* The division by the signed drawdown: annual_return / max_dd.
CalmarSigned(returns) ==
    LET max_dd == SeriesMin(Drawdown(returns))
        annual_return == RMul(SeriesMean(returns), F(252))
    IN  IF max_dd # Zero THEN TrueDivide(annual_return, max_dd) ELSE NaN

\* calculate_calmar_ratio (lines 95-99)
calculate_calmar_ratio(returns) ==
    LET max_dd == calculate_max_drawdown(returns)
        annual_return == RMul(SeriesMean(returns), F(252))
        abs_max_dd == IF RLt(max_dd, Zero) THEN RNeg(max_dd) ELSE max_dd
    IN  IF max_dd # Zero THEN TrueDivide(annual_return, abs_max_dd) ELSE NaN

\* ------------------------------------------------------------------------
\* analyze_portfolio.  data[ticker]["Close"] holds the observations of the
\* ticker: the dates of its column of the price table that have a value.
\* ------------------------------------------------------------------------
FirstDate(df) == df.last_date - Len(df.rows) + 1

\* data[ticker]["Close"] as <<date, close>> pairs in date order.
CloseSeries(df, i) ==
    SelectSeq([k \in 1 .. Len(df.rows) |-> <<FirstDate(df) + k - 1, df.rows[k][i]>>],
              LAMBDA o : ~IsNaN(o[2]))

\* df["Close"].pct_change().dropna() (line 20): the first observation has
\* no predecessor.
PctChange(obs) ==
    [k \in 1 .. Len(obs) - 1 |->
        <<obs[k + 1][1], RSub(RDiv(obs[k + 1][2], obs[k][2]), One)>>]

\* The value of a dated series on a date, NaN without an observation.
ValueOn(series, date) ==
    IF \E k \in 1 .. Len(series) : series[k][1] = date
    THEN series[CHOOSE k \in 1 .. Len(series) : series[k][1] = date][2]
    ELSE NaN

\* pd.concat(all_returns, axis=1) (line 23): one row per date of the union
\* of the dates of the series, NaN where a series has no value.
ReturnsDf(df) ==
    LET all_returns == [i \in 1 .. df.ncols |-> PctChange(CloseSeries(df, i))]
        calendar == [k \in 1 .. Len(df.rows) |-> FirstDate(df) + k - 1]
        dates == SelectSeq(calendar,
                           LAMBDA d : \E i \in 1 .. df.ncols :
                                          \E k \in 1 .. Len(all_returns[i]) :
                                              all_returns[i][k][1] = d)
    IN  [k \in 1 .. Len(dates) |->
            [i \in 1 .. df.ncols |-> ValueOn(all_returns[i], dates[k])]]

\* returns_df.dot(weights) (line 28), for weights of the table's width.
Dot(rows, w) ==
    [k \in 1 .. Len(rows) |-> RSum([i \in 1 .. Len(w) |-> RMul(rows[k][i], w[i])])]

\* returns_df.cov(): each entry over the rows where both columns have a
\* value.
PairwiseCov(rows, ncols) ==
    [i \in 1 .. ncols |->
        [j \in 1 .. ncols |->
            CovEntry(SelectSeq(rows, LAMBDA r : ~IsNaN(r[i]) /\ ~IsNaN(r[j])), i, j)]]

\* np.dot(cov_matrix, weights)
MatVec(c, w) == [i \in 1 .. Len(c) |-> RSum([j \in 1 .. Len(w) |-> RMul(c[i][j], w[j])])]

\* calculate_portfolio_variance (lines 134-137)
calculate_portfolio_variance(rows, w) ==
    LET marginal == MatVec(PairwiseCov(rows, Len(w)), w)
    IN  RSum([i \in 1 .. Len(w) |-> RMul(w[i], marginal[i])])

\* The shares of the variance: the division by the portfolio variance in
\* place of the portfolio volatility.
RiskContributionShares(rows, w) ==
    LET portfolio_var == calculate_portfolio_variance(rows, w)
        marginal_contributions == MatVec(PairwiseCov(rows, Len(w)), w)
    IN  IF portfolio_var # Zero
        THEN [i \in 1 .. Len(w) |->
                 TrueDivide(RMul(w[i], marginal_contributions[i]), portfolio_var)]
        ELSE NaN

\* calculate_risk_contributions (lines 150-155): a vector, or the scalar
\* NaN when the portfolio volatility is 0.
calculate_risk_contributions(rows, w) ==
    LET portfolio_vol == Sqrt(calculate_portfolio_variance(rows, w))
        marginal_contributions == MatVec(PairwiseCov(rows, Len(w)), w)
    IN  IF portfolio_vol # Zero
        THEN [i \in 1 .. Len(w) |->
                 TrueDivide(RMul(w[i], marginal_contributions[i]), portfolio_vol)]
        ELSE NaN

\* risk_free_rate=0.02 (line 8)
RiskFreeRate == R(1, 50)

\* Lines 14-80 for weights of the table's width: the entries of the result
\* that are functions of the returns alone and enter the properties below
\* (the allocation, the statistical tests, beta and the correlations are
\* left out).
AnalysisOf(df, w, risk_free_rate) ==
    LET returns_df == ReturnsDf(df)
        portfolio_returns == Dot(returns_df, w)
        annualized_return == RMul(SeriesMean(portfolio_returns), F(252))
        annualized_volatility == RMul(SeriesStd(portfolio_returns), Sqrt252)
    IN  [returns_df |-> returns_df,
         portfolio_returns |-> portfolio_returns,
         annualized_return |-> annualized_return,
         annualized_volatility |-> annualized_volatility,
         sharpe_ratio |-> TrueDivide(RSub(annualized_return, risk_free_rate),
                                     annualized_volatility),
         sortino_ratio |-> calculate_sortino_ratio(portfolio_returns, risk_free_rate),
         calmar_ratio |-> calculate_calmar_ratio(portfolio_returns),
         max_drawdown |-> calculate_max_drawdown(portfolio_returns),
         portfolio_variance |-> calculate_portfolio_variance(returns_df, w),
         risk_contribution |-> calculate_risk_contributions(returns_df, w)]

\* analyze_portfolio(data, weights) as main calls it, as a function of the
\* session.
Analyses ==
    [df \in CalendarTables |->
        [w \in {v \in WeightVectors : Len(v) = df.ncols} |->
            AnalysisOf(df, w, RiskFreeRate)]]

\* analyze_portfolio (menu options 2 and 3).  The dot product of line 28
\* raises on weights of another length than the tickers; on portfolio
\* returns without a number stats.jarque_bera (line 64) raises or returns
\* NaN, depending on the version of scipy.
Analyze ==
    /\ pc = "idle"
    /\ price_df \in CalendarTables
    /\ IF Len(weights) # n_assets
       THEN analysis' = [outcome |-> "raised", error |-> "ValueError", line |-> 28]
       ELSE \/ analysis' = [outcome |-> "returned",
                            result |-> Analyses[price_df][weights]]
            \/ /\ NumbersOf(Analyses[price_df][weights].portfolio_returns) = <<>>
               /\ analysis' = [outcome |-> "raised", error |-> "ValueError",
                               line |-> 64]
    /\ UNCHANGED <<session, np_global, locals, pc, last, remembered,
                   daily_returns, helper, construction,
                   application>>

\* The daily returns handed to a helper.
ReturnValues == {F(-1), R(-1, 2), R(-1, 4), Zero, R(1, 2), One}

ReturnSeries == UNION {[1 .. n -> ReturnValues] : n \in 0 .. MaxReturns}

\* The helpers applied to the series.
MaxDrawdownCall ==
    /\ helper' = [fn |-> "calculate_max_drawdown",
                  value |-> calculate_max_drawdown(daily_returns)]
    /\ UNCHANGED <<session, np_global, locals, pc, last, remembered,
                   analysis, daily_returns, construction,
                   application>>

SortinoCall ==
    /\ helper' = [fn |-> "calculate_sortino_ratio",
                  value |-> calculate_sortino_ratio(daily_returns, RiskFreeRate)]
    /\ UNCHANGED <<session, np_global, locals, pc, last, remembered,
                   analysis, daily_returns, construction,
                   application>>

CalmarCall ==
    /\ helper' = [fn |-> "calculate_calmar_ratio",
                  value |-> calculate_calmar_ratio(daily_returns)]
    /\ UNCHANGED <<session, np_global, locals, pc, last, remembered,
                   analysis, daily_returns, construction,
                   application>>

\* ------------------------------------------------------------------------
\* The construction of the portfolio: PortfolioSelectorGUI
\* (gui_portfolio_selector.py) and get_user_portfolio.  The entry fields,
\* the selection of the listbox and the answers to the dialogs are inputs
\* of the handlers.
\* ------------------------------------------------------------------------
computation == <<session, np_global, locals, pc, last, remembered, analytics,
                 application>>

\* Python's None, the weight of a ticker whose weight is not set.
None == <<0, -1>>

\* self.predefined_portfolios (lines 21-44), the 60/40 portfolio.
predefined_portfolios ==
    [name \in {"60/40 Portfolio"} |-> << <<"SPY", R(3, 5)>>, <<"AGG", R(2, 5)>> >>]

\* The symbols typed into the search entry, and those whose lookup succeeds
\* in the session (the lookup of any other symbol raises).
Queries == {"SPY", "TLT", "XXXX"}
KnownTickers == {"SPY", "TLT"}

\* A text in the weight entry that float() rejects with a ValueError.
NoNumber == <<0, -2>>

\* The contents of the weight entry; float() reads the text "nan" as NaN.
WeightEntries == {F(1), F(3), Zero, F(-1), NaN, NoNumber}

\* sum(weights) / [w / total for w in weights]
Normalized(ws) == [k \in 1 .. Len(ws) |-> RDiv(ws[k], RSum(ws))]

Remove(seq, idx) == SubSeq(seq, 1, idx - 1) \o SubSeq(seq, idx + 1, Len(seq))

\* Listbox.delete(idx) and Listbox.insert(idx, item), rows counted from 1.
ListboxDelete(rows, idx) == Remove(rows, idx)

ListboxInsertEnd(rows, idx, item) == Append(rows, item)

ListboxInsert(rows, idx, item) ==
    SubSeq(rows, 1, idx - 1) \o <<item>> \o SubSeq(rows, idx, Len(rows))

\* The tickers of the quick-add buttons (lines 85-93).
PopularTickers == {"SPY", "TLT", "GLD"}

\* select_portfolio_gui() is called (main.py line 46): __init__ builds the
\* window with an empty portfolio and enters the main loop.  The result of
\* an earlier construction is not kept.
OpenGui ==
    /\ window \in {"none", "closed"}
    /\ window' = "open"
    /\ selected_tickers' = <<>> /\ selected_weights' = <<>>
    /\ portfolio_list' = <<>> /\ results_list' = ""
    /\ scheduled' = <<>>
    /\ portfolio' = NoCall
    /\ UNCHANGED computation

\* load_predefined_portfolio (lines 165-185) with the combobox at name and
\* the answer to the question whether to replace the portfolio.
LoadPredefined(name, yes) ==
    /\ window = "open"
    /\ IF name = "" \/ (selected_tickers # <<>> /\ ~yes)
       THEN UNCHANGED <<selected_tickers, selected_weights, portfolio_list>>
       ELSE LET chosen == predefined_portfolios[name]
            IN  /\ selected_tickers' = [k \in 1 .. Len(chosen) |-> chosen[k][1]]
                /\ selected_weights' = [k \in 1 .. Len(chosen) |-> chosen[k][2]]
                /\ portfolio_list' = chosen
    /\ UNCHANGED <<computation, window, results_list, scheduled, portfolio>>

\* auto_balance (lines 187-200)
AutoBalance ==
    /\ window = "open"
    /\ IF selected_tickers = <<>>
       THEN UNCHANGED <<selected_weights, portfolio_list>>
       ELSE LET equal_weight == RDiv(One, F(Len(selected_tickers)))
            IN  /\ selected_weights' = [k \in 1 .. Len(selected_tickers) |-> equal_weight]
                /\ portfolio_list' = [k \in 1 .. Len(selected_tickers) |->
                                         <<selected_tickers[k], equal_weight>>]
    /\ UNCHANGED <<computation, window, selected_tickers, results_list, scheduled,
                   portfolio>>

\* search_ticker (lines 209-232): the results are replaced when the lookup
\* succeeds and kept when the query is empty or the lookup fails.
SearchTicker(query) ==
    /\ window = "open"
    /\ results_list' = IF query \in KnownTickers THEN query ELSE results_list
    /\ UNCHANGED <<computation, window, selected_tickers, selected_weights,
                   portfolio_list, scheduled, portfolio>>

\* add_ticker (lines 234-248)
add_ticker ==
    IF results_list = "" \/ \E k \in 1 .. Len(selected_tickers) :
                                 selected_tickers[k] = results_list
    THEN UNCHANGED <<selected_tickers, selected_weights, portfolio_list>>
    ELSE /\ selected_tickers' = Append(selected_tickers, results_list)
         /\ selected_weights' = Append(selected_weights, None)
         /\ portfolio_list' = Append(portfolio_list, <<results_list, None>>)

\* The button "Add Selected Ticker" or a double click on the results.
AddTicker ==
    /\ window = "open"
    /\ add_ticker
    /\ UNCHANGED <<computation, window, results_list, scheduled, portfolio>>

\* quick_add_ticker (lines 202-207): the search for the ticker of the
\* button, then add_ticker handed to root.after.
QuickAddTicker(ticker) ==
    /\ window = "open"
    /\ Len(scheduled) < MaxScheduled
    /\ results_list' = IF ticker \in KnownTickers THEN ticker ELSE results_list
    /\ scheduled' = Append(scheduled, ticker)
    /\ UNCHANGED <<computation, window, selected_tickers, selected_weights,
                   portfolio_list, portfolio>>

\* The event loop runs the oldest callback of root.after: add_ticker
\* (line 207).  The loop also runs while the dialog of confirm is shown.
DeferredAddTicker ==
    /\ window \in {"open", "dialog"}
    /\ scheduled # <<>>
    /\ scheduled' = Tail(scheduled)
    /\ add_ticker
    /\ UNCHANGED <<computation, window, results_list, portfolio>>

\* remove_ticker (lines 250-259) with row sel of the listbox selected, 0
\* for no selection.
RemoveTicker(sel) ==
    /\ window = "open"
    /\ sel <= Len(portfolio_list)
    /\ IF sel = 0
       THEN UNCHANGED <<selected_tickers, selected_weights, portfolio_list>>
       ELSE /\ portfolio_list' = Remove(portfolio_list, sel)
            /\ selected_tickers' = Remove(selected_tickers, sel)
            /\ selected_weights' = Remove(selected_weights, sel)
    /\ UNCHANGED <<computation, window, results_list, scheduled, portfolio>>

\* clear_portfolio (lines 261-265) with the answer to its question.
ClearPortfolio(yes) ==
    /\ window = "open"
    /\ IF selected_tickers # <<>> /\ yes
       THEN /\ portfolio_list' = <<>>
            /\ selected_tickers' = <<>>
            /\ selected_weights' = <<>>
       ELSE UNCHANGED <<selected_tickers, selected_weights, portfolio_list>>
    /\ UNCHANGED <<computation, window, results_list, scheduled, portfolio>>

\* set_weight (lines 267-291) with the weight entry at entry and row sel of
\* the listbox selected, 0 for no selection.
SetWeight(entry, sel) ==
    /\ window = "open"
    /\ sel <= Len(portfolio_list)
    /\ IF selected_tickers = <<>> \/ entry = NoNumber
       THEN UNCHANGED <<selected_weights, portfolio_list>>
       ELSE IF RLe(entry, Zero)
       THEN UNCHANGED <<selected_weights, portfolio_list>>
       ELSE LET idx == IF sel # 0 THEN sel ELSE Len(selected_weights)
            IN  /\ selected_weights' = [selected_weights EXCEPT ![idx] = entry]
                /\ portfolio_list' =
                      ListboxInsert(ListboxDelete(portfolio_list, idx), idx,
                                    <<selected_tickers[idx], entry>>)
    /\ UNCHANGED <<computation, window, selected_tickers, results_list, scheduled,
                   portfolio>>

\* confirm, lines 293-313: on success the weights are normalized and the
\* dialog "Portfolio Confirmed" is shown, in which the event loop runs on.
Confirm ==
    /\ window = "open"
    /\ IF \/ selected_tickers = <<>>
          \/ \E k \in 1 .. Len(selected_weights) : selected_weights[k] = None
       THEN UNCHANGED <<window, selected_weights>>
       ELSE IF RLe(RSum(selected_weights), Zero)
       THEN UNCHANGED <<window, selected_weights>>
       ELSE /\ selected_weights' = Normalized(selected_weights)
            /\ window' = "dialog"
    /\ UNCHANGED <<computation, selected_tickers, portfolio_list, results_list,
                   scheduled, portfolio>>

\* confirm, line 314, once the dialog is answered: the window is destroyed
\* with the callbacks it holds, the main loop ends and select_portfolio_gui
\* returns the two lists (line 319).
Destroy ==
    /\ window = "dialog"
    /\ window' = "closed"
    /\ scheduled' = <<>>
    /\ portfolio' = [outcome |-> "returned", by |-> "confirm",
                     tickers |-> selected_tickers, weights |-> selected_weights]
    /\ UNCHANGED <<computation, selected_tickers, selected_weights,
                   portfolio_list, results_list>>

\* The user closes the window: Tk destroys it, the main loop ends and
\* select_portfolio_gui returns the two lists as they are (lines 154, 319).
CloseWindow ==
    /\ window = "open"
    /\ window' = "closed"
    /\ scheduled' = <<>>
    /\ portfolio' = [outcome |-> "returned", by |-> "close",
                     tickers |-> selected_tickers, weights |-> selected_weights]
    /\ UNCHANGED <<computation, selected_tickers, selected_weights,
                   portfolio_list, results_list>>

\* The two lines typed into get_user_portfolio, after the split at the
\* commas and the conversion of the weights.
TickerInputs == {<<"SPY">>, <<"SPY", "TLT">>}
WeightInputs == {<<F(2)>>, <<F(1), F(3)>>, <<F(1), F(-1)>>, <<F(3), F(-1)>>}

\* get_user_portfolio (get_user_portfolio.py lines 1-14): a ValueError on
\* lists of different lengths, a ZeroDivisionError on a total of 0.
GetUserPortfolio(tickers, ws) ==
    /\ window \in {"none", "closed"}
    /\ portfolio' =
          IF Len(tickers) # Len(ws)
          THEN [outcome |-> "raised", by |-> "get_user_portfolio",
                error |-> "ValueError", line |-> 9]
          ELSE IF RSum(ws) = Zero
          THEN [outcome |-> "raised", by |-> "get_user_portfolio",
                error |-> "ZeroDivisionError", line |-> 12]
          ELSE [outcome |-> "returned", by |-> "get_user_portfolio",
                tickers |-> tickers, weights |-> Normalized(ws)]
    /\ UNCHANGED <<computation, gui>>

\* ------------------------------------------------------------------------
\* The application: the text menu of main.py with the collaborators it
\* calls.  A variable of main() is NoValue while it is None.  The mapping
\* data is the sequence of its values in the order of insertion, the order
\* in which a dict is iterated; each value is the table of one ticker.
\* ------------------------------------------------------------------------
NoValue == [is |-> "None"]

Value(v) == [is |-> "value", v |-> v]

\* Lines 16-25 of main().
InitialMain ==
    [data |-> NoValue, tickers |-> NoValue, weights |-> NoValue,
     portfolio_series |-> NoValue, model |-> NoValue, scenario |-> NoValue,
     current_period |-> "10y"]

\* No turn of the loop has been taken.
NoTurn == [choice |-> "", input |-> "", calls |-> <<>>, applied |-> <<>>,
           printed |-> "", error |-> ""]

Turn(choice, input, calls, applied, printed, error) ==
    [choice |-> choice, input |-> input, calls |-> calls, applied |-> applied,
     printed |-> printed, error |-> error]

\* What yf.download returns: five dates of history for every ticker, of
\* which the period "5y" covers the last four.  TLT moves with SPY.
Periods == {"5y", "10y", "15y", "max"}

Closes ==
    [ticker \in {"SPY", "AGG", "TLT"} |->
        CASE ticker = "SPY" -> <<F(4), F(2), F(4), F(2), F(2)>>
          [] ticker = "AGG" -> <<F(4), F(4), F(4), F(8), F(4)>>
          [] ticker = "TLT" -> <<F(2), F(1), F(2), F(1), F(1)>>]

FirstDateOf(period) == IF period = "5y" THEN 2 ELSE 1

Rows(series, period) == SubSeq(series, FirstDateOf(period), Len(series))

\* The table of a ticker as load_data keeps it (line 25), with the period
\* it was downloaded for; Open stands for the columns other than Close.
History(ticker, period) ==
    [ticker |-> ticker, period |-> period,
     Open |-> Rows(<<F(1), F(4), F(2), F(4), F(2)>>, period),
     Close |-> Rows(Closes[ticker], period)]

Keys(data) == [k \in 1 .. Len(data) |-> data[k].ticker]

Range(seq) == {seq[k] : k \in 1 .. Len(seq)}

Item(data, ticker) == data[CHOOSE k \in 1 .. Len(data) : data[k].ticker = ticker]

\* load_data (data_loader.py lines 14-33): the tickers in the order of the
\* list, without those for which the download is empty or raises.
RECURSIVE load_data(_, _, _)
load_data(tickers, period, empty) ==
    IF tickers = <<>> THEN <<>>
    ELSE IF Head(tickers) \in empty
    THEN load_data(Tail(tickers), period, empty)
    ELSE <<History(Head(tickers), period)>>
             \o load_data(Tail(tickers), period, empty)

\* pd.concat([data[t]["Close"] for t in tickers], axis=1): one column per
\* ticker of the list (every table holds the same dates).
PriceTable(data, tickers) ==
    LET ndates == Len(Item(data, tickers[1]).Close)
    IN  [ncols |-> Len(tickers), last_date |-> ndates,
         rows |-> [d \in 1 .. ndates |->
                     [i \in 1 .. Len(tickers) |-> Item(data, tickers[i]).Close[d]]]]

Failed(error, line) == [outcome |-> "raised", error |-> error, line |-> line]

\* build_portfolio_series that leaves out the tickers without data.
build_portfolio_series_lenient(data, tickers, ws) ==
    IF \E k \in 1 .. Len(tickers) : tickers[k] \notin Range(Keys(data))
    THEN [outcome |-> "returned", value |-> <<>>]
    ELSE IF tickers = <<>>
    THEN Failed("ValueError", 10)
    ELSE IF Len(ws) # Len(tickers)
    THEN Failed("ValueError", 15)
    ELSE IF \E k \in 1 .. Len(ws) : ws[k] = None
    THEN Failed("TypeError", 15)
    ELSE [outcome |-> "returned",
          value |-> Dot(PriceTable(data, tickers).rows, ws)]

\* build_portfolio_series (portfolio_builder.py lines 3-17): data[t] raises
\* a KeyError for a ticker without data, pd.concat a ValueError for no
\* ticker at all, df.dot a TypeError for a weight of None.
build_portfolio_series(data, tickers, ws) ==
    IF \E k \in 1 .. Len(tickers) : tickers[k] \notin Range(Keys(data))
    THEN Failed("KeyError", 7)
    ELSE IF tickers = <<>>
    THEN Failed("ValueError", 10)
    ELSE IF Len(ws) # Len(tickers)
    THEN Failed("ValueError", 15)
    ELSE IF \E k \in 1 .. Len(ws) : ws[k] = None
    THEN Failed("TypeError", 15)
    ELSE [outcome |-> "returned",
          value |-> Dot(PriceTable(data, tickers).rows, ws)]

\* run_scenario (simulation.py lines 3-19) as its effect on the mapping it
\* is given and the mapping it returns.  Without df.copy() the assignment
\* to sim["Close"] would write into the table of data.
ScenarioFactor(scenario_type) ==
    CASE scenario_type = "AI_BUBBLE" -> R(23, 20)
      [] scenario_type = "CRASH" -> R(17, 20)
      [] scenario_type = "RECOVERY" -> R(21, 20)
      [] OTHER -> One

Scaled(df, scenario_type) ==
    IF scenario_type \in {"AI_BUBBLE", "CRASH", "RECOVERY"}
    THEN [df EXCEPT !.Close = [d \in 1 .. Len(df.Close) |->
                                  RMul(df.Close[d], ScenarioFactor(scenario_type))]]
    ELSE df

run_scenario_in_place(data, scenario_type) ==
    [data |-> [k \in 1 .. Len(data) |-> Scaled(data[k], scenario_type)],
     scenario |-> [k \in 1 .. Len(data) |-> Scaled(data[k], scenario_type)]]

run_scenario(data, scenario_type) ==
    [data |-> data,
     scenario |-> [k \in 1 .. Len(data) |-> Scaled(data[k], scenario_type)]]

\* What select_portfolio_gui returns (line 46), by the ways of leaving the
\* window: the 60/40 portfolio confirmed; SPY and TLT added, balanced and
\* confirmed; AGG left of the 60/40 portfolio and the window closed; the
\* window closed at once; SPY added and the window closed.
SelectorResults ==
    { [tickers |-> <<"SPY", "AGG">>, weights |-> <<R(3, 5), R(2, 5)>>],
      [tickers |-> <<"SPY", "TLT">>, weights |-> <<R(1, 2), R(1, 2)>>],
      [tickers |-> <<"AGG">>, weights |-> <<R(2, 5)>>],
      [tickers |-> <<>>, weights |-> <<>>],
      [tickers |-> <<"SPY">>, weights |-> <<None>>] }

\* The tickers for which a download may come back empty.
EmptyDownloads == SUBSET {"TLT"}

\* The texts typed at the prompts.
Choices == {"1", "2", "3", "4", "5", "6", "7", "8", "9", "0"}
PeriodChoices == {"1", "2", "5", "x"}
ScenarioChoices == {"1", "2", "x"}
NumberTexts == {"1", "0", "x"}

\* The chain of comparisons of choice, lines 45-197, with a last branch
\* that loads a portfolio.
OptionOrLoad(choice) ==
    IF choice \in {"1", "2", "3", "4", "5", "6", "7", "8", "9"} THEN choice ELSE "1"

\* The chain of comparisons of choice, lines 45-197.
Option(choice) ==
    IF choice \in {"1", "2", "3", "4", "5", "6", "7", "8", "9"} THEN choice
    ELSE "invalid"

\* The guards of options 2 to 8 (lines 56, 96, 107, 117, 144, 160, 183).
NotLoaded(option) ==
    CASE option = "2" -> main.portfolio_series = NoValue \/ main.data = NoValue
      [] option = "5" -> main.portfolio_series = NoValue
      [] OTHER -> main.data = NoValue

LoadFirst == "Load portfolio first"

\* period_map with "5" for the default period.
period_map_default(current_period) ==
    [period_choice \in {"1", "2", "3", "4", "5"} |->
        CASE period_choice = "1" -> "5y"
          [] period_choice = "2" -> "10y"
          [] period_choice = "3" -> "15y"
          [] period_choice = "4" -> "max"
          [] period_choice = "5" -> "10y"]

\* period_map, lines 69-75.
period_map(current_period) ==
    [period_choice \in {"1", "2", "3", "4", "5"} |->
        CASE period_choice = "1" -> "5y"
          [] period_choice = "2" -> "10y"
          [] period_choice = "3" -> "15y"
          [] period_choice = "4" -> "max"
          [] period_choice = "5" -> current_period]

scenario_map ==
    [s_choice \in {"1", "2", "3"} |->
        CASE s_choice = "1" -> "AI_BUBBLE"
          [] s_choice = "2" -> "CRASH"
          [] s_choice = "3" -> "RECOVERY"]

\* The price tables option 6 can build, and whether np.linalg.cholesky
\* accepts the covariance of their log returns.
MenuTables ==
    {PriceTable(load_data(r.tickers, period, {}), r.tickers) :
        r \in {x \in SelectorResults : x.tickers # <<>>}, period \in Periods}

Factorizable == [df \in MenuTables |-> PositiveDefinite(Cov(df))]

\* The file generate_analysis_report writes (portfolio_analysis.py line 231).
ReportFile == [name |-> "portfolio_analyse_zusammenfassung.csv",
               by |-> "generate_analysis_report"]

elsewhere == <<session, locals, pc, last, remembered, analytics, construction>>

\* The turn ends at the prompt.
Prompt(m, choice, input, calls, applied, printed) ==
    /\ main' = m
    /\ loop' = "prompt"
    /\ turn' = Turn(choice, input, calls, applied, printed, "")

\* An exception leaves main(): no statement of main.py catches it.
Terminate(m, choice, input, calls, applied, error) ==
    /\ main' = m
    /\ loop' = "terminated"
    /\ turn' = Turn(choice, input, calls, applied, "", error)

\* Option 1, lines 45-50.
LoadPortfolio(choice) ==
    /\ loop = "prompt"
    /\ Option(choice) = "1"
    /\ \E r \in SelectorResults, empty \in EmptyDownloads :
          LET data == load_data(r.tickers, main.current_period, empty)
              built == build_portfolio_series(data, r.tickers, r.weights)
              calls == <<"select_portfolio_gui", "load_data", "build_portfolio_series">>
              m == [main EXCEPT !.tickers = Value(r.tickers),
                                !.weights = Value(r.weights),
                                !.data = Value(data)]
          IN  IF built.outcome = "raised"
              THEN Terminate(m, choice, "", calls, <<>>, built.error)
              ELSE Prompt([m EXCEPT !.portfolio_series = Value(built.value)],
                          choice, "", calls, r.tickers, "Portfolio successfully loaded")
    /\ UNCHANGED <<elsewhere, np_global, files>>

\* Option 2, lines 55-90: analyze_portfolio applies weights[i] to the i-th
\* table of data.items() (portfolio_analysis.py lines 15-28).
AnalyzeReport(choice) ==
    /\ loop = "prompt"
    /\ Option(choice) = "2"
    /\ IF NotLoaded("2")
       THEN Prompt(main, choice, "", <<>>, <<>>, LoadFirst) /\ UNCHANGED files
       ELSE \E period_choice \in PeriodChoices, empty \in EmptyDownloads :
          LET valid == period_choice \in DOMAIN period_map(main.current_period)
              selected_period == IF valid
                                 THEN period_map(main.current_period)[period_choice]
                                 ELSE main.current_period
              reload == selected_period # main.current_period
              data == load_data(main.tickers.v, selected_period, empty)
              built == build_portfolio_series(data, main.tickers.v, main.weights.v)
              m == [main EXCEPT !.data = Value(data),
                                !.portfolio_series = Value(built.value),
                                !.current_period = selected_period]
              reloading == <<"load_data", "build_portfolio_series">>
              reporting == <<"analyze_portfolio", "generate_analysis_report">>
          IN  IF reload /\ built.outcome = "raised"
              THEN /\ Terminate([main EXCEPT !.data = Value(data)], choice,
                                period_choice, reloading, <<>>, built.error)
                   /\ UNCHANGED files
              ELSE /\ Prompt(IF reload THEN m ELSE main, choice, period_choice,
                             (IF reload THEN reloading ELSE <<>>) \o reporting,
                             Keys(IF reload THEN data ELSE main.data.v),
                             "PORTFOLIO ANALYSIS REPORT")
                   /\ files' = files \cup {ReportFile}
    /\ UNCHANGED <<elsewhere, np_global>>

\* Options 3, 4 and 8, lines 95-111 and 182-186: plots of data; plot_drawdown
\* applies weights[i] as analyze_portfolio does (visualisation.py lines
\* 232-240).
Plot(choice) ==
    /\ loop = "prompt"
    /\ Option(choice) \in {"3", "4", "8"}
    /\ IF NotLoaded(Option(choice))
       THEN Prompt(main, choice, "", <<>>, <<>>, LoadFirst)
       ELSE Prompt(main, choice, "",
                   CASE Option(choice) = "3" ->
                            <<"analyze_portfolio", "plot_portfolio_analysis">>
                     [] Option(choice) = "4" -> <<"plot_drawdown">>
                     [] Option(choice) = "8" -> <<"interactive_toggle_plot">>,
                   Keys(main.data.v), "")
    /\ UNCHANGED <<elsewhere, np_global, files>>

\* Option 5, lines 116-138.  The five dates stand for a history of any
\* length: train_model fits on no row and raises when the history is
\* shorter than the windows of its features (prediction.py lines 9-52).
TrainForecast(choice) ==
    /\ loop = "prompt"
    /\ Option(choice) = "5"
    /\ IF NotLoaded("5")
       THEN Prompt(main, choice, "", <<>>, <<>>, LoadFirst)
       ELSE \E long \in BOOLEAN, years \in NumberTexts :
          LET m == [main EXCEPT !.model = Value("RandomForestRegressor")]
          IN  IF ~long
              THEN Terminate(main, choice, "", <<"train_model">>, <<>>, "ValueError")
              ELSE IF years = "x"
              THEN Prompt(m, choice, "", <<"train_model">>, <<>>,
                          "Invalid input. Please enter a positive integer.")
              ELSE IF years = "0"
              THEN Prompt(m, choice, "", <<"train_model">>, <<>>,
                          "Please enter a positive number.")
              ELSE Prompt(m, choice, "",
                          <<"train_model", "forecast_future_days",
                            "plot_with_predictions">>, <<>>, "")
    /\ UNCHANGED <<elsewhere, np_global, files>>

\* Option 6, lines 143-152, with run_monte_carlo_simulation (montecarlo.py
\* lines 158-200): int() raises on a text that is no number, the
\* factorisation on a covariance that is not positive definite; the plot
\* draws once from numpy's global generator.
MonteCarlo(choice) ==
    /\ loop = "prompt"
    /\ Option(choice) = "6"
    /\ IF NotLoaded("6")
       THEN Prompt(main, choice, "", <<>>, <<>>, LoadFirst) /\ UNCHANGED np_global
       ELSE \E years \in NumberTexts, sims \in NumberTexts \ {"0"} :
          LET table == PriceTable(main.data.v, main.tickers.v)
              calls == <<"run_monte_carlo_simulation">>
              simulating == calls \o <<"simulate_correlated_gbm">>
          IN  IF years = "x" \/ sims = "x"
              THEN /\ Terminate(main, choice, "", calls, <<>>, "ValueError")
                   /\ UNCHANGED np_global
              ELSE IF ~Factorizable[table]
              THEN /\ Terminate(main, choice, "", simulating, main.tickers.v,
                                "LinAlgError")
                   /\ UNCHANGED np_global
              ELSE /\ Prompt(main, choice, "",
                             simulating \o <<"plot_montecarlo_results">>,
                             main.tickers.v, "Simulation complete.")
                   /\ np_global' = RngNext(np_global)
    /\ UNCHANGED <<elsewhere, files>>

\* Option 7, lines 159-177.
Scenario(choice) ==
    /\ loop = "prompt"
    /\ Option(choice) = "7"
    /\ IF NotLoaded("7")
       THEN Prompt(main, choice, "", <<>>, <<>>, LoadFirst)
       ELSE \E s_choice \in ScenarioChoices :
          IF s_choice \notin DOMAIN scenario_map
          THEN Prompt(main, choice, s_choice, <<>>, <<>>, "Invalid scenario.")
          ELSE LET ran == run_scenario(main.data.v, scenario_map[s_choice])
               IN  Prompt([main EXCEPT !.data = Value(ran.data),
                                       !.scenario = Value(ran.scenario)],
                          choice, s_choice, <<"run_scenario", "plot_scenario">>,
                          <<>>, "")
    /\ UNCHANGED <<elsewhere, np_global, files>>

\* Option 9, lines 192-194.
Exit(choice) ==
    /\ loop = "prompt"
    /\ Option(choice) = "9"
    /\ main' = main
    /\ loop' = "exited"
    /\ turn' = Turn(choice, "", <<>>, <<>>, "Goodbye!", "")
    /\ UNCHANGED <<elsewhere, np_global, files>>

\* Lines 196-197.
InvalidChoice(choice) ==
    /\ loop = "prompt"
    /\ Option(choice) = "invalid"
    /\ Prompt(main, choice, "", <<>>, <<>>,
              "Invalid choice. Please select a number between 1 and 9.")
    /\ UNCHANGED <<elsewhere, np_global, files>>

\* ------------------------------------------------------------------------
\* The functions that take the loaded data, called on their own: data is
\* any mapping from tickers to tables, in any order of insertion.
\* ------------------------------------------------------------------------
TickerLists == {<<"SPY", "AGG">>, <<"AGG", "SPY">>, <<"SPY", "TLT">>, <<"AGG">>}

ScenarioTypes == {"AI_BUBBLE", "CRASH", "RECOVERY", "BOOM"}

Called(calls, input, applied, error) ==
    /\ turn' = Turn("", input, calls, applied, "", error)
    /\ UNCHANGED <<loop, files, elsewhere, np_global>>

\* analyze_portfolio(data, weights): column i of returns_df is the i-th key
\* of data (portfolio_analysis.py lines 15-24) and takes weights[i] in the
\* product of line 28, which raises on another number of weights.
AnalyzeCall ==
    /\ main' = main
    /\ IF Len(main.weights.v) # Len(main.data.v)
       THEN Called(<<"analyze_portfolio">>, "", <<>>, "ValueError")
       ELSE Called(<<"analyze_portfolio">>, "", Keys(main.data.v), "")

\* plot_drawdown(data, weights): the same columns (visualisation.py lines
\* 232-240).
DrawdownCall ==
    /\ main' = main
    /\ IF Len(main.weights.v) # Len(main.data.v)
       THEN Called(<<"plot_drawdown">>, "", <<>>, "ValueError")
       ELSE Called(<<"plot_drawdown">>, "", Keys(main.data.v), "")

\* The price table of option 6 (main.py lines 149-150): column i is ticker
\* i of the list; data[t] raises for a ticker that is no key.
PriceTableCall ==
    /\ main' = main
    /\ IF \E k \in 1 .. Len(main.tickers.v) :
             main.tickers.v[k] \notin Range(Keys(main.data.v))
       THEN Called(<<"pd.concat">>, "", <<>>, "KeyError")
       ELSE Called(<<"pd.concat">>, "", main.tickers.v, "")

\* run_scenario(data, scenario_type) and the assignment of line 176.
ScenarioCall(scenario_type) ==
    /\ LET ran == run_scenario(main.data.v, scenario_type)
       IN  main' = [main EXCEPT !.data = Value(ran.data),
                                !.scenario = Value(ran.scenario)]
    /\ Called(<<"run_scenario">>, scenario_type, <<>>, "")

\* No call is running and none has been made.
InitCalls ==
    /\ pc = "idle"
    /\ T_days = 0 /\ n_sims = 0 /\ seed = NoSeed /\ rng = 0 /\ rng0 = 0
    /\ mu = <<>> /\ cov = <<>> /\ S0 = <<>> /\ L = <<>> /\ drift = <<>>
    /\ asset_paths = <<>> /\ t = 0
    /\ last = NoCall
    /\ remembered = NoCall
    /\ analysis = NoCall
    /\ helper = NoHelper
    /\ window = "none"
    /\ selected_tickers = <<>> /\ selected_weights = <<>>
    /\ portfolio_list = <<>> /\ results_list = ""
    /\ scheduled = <<>>
    /\ portfolio = NoCall
    /\ loop = "prompt"
    /\ turn = NoTurn
    /\ files = {}

Init ==
    /\ price_df \in PriceTables
    /\ weights \in WeightVectors
    /\ np_global \in RngStates
    /\ daily_returns = <<>>
    /\ main = InitialMain
    /\ InitCalls

\* The operating system's entropy matters to an unseeded generator only.
Entropy(sd) == IF sd = NoSeed THEN RngStates ELSE {0}

\* A call with any arguments.
Call == \E days \in -1 .. MaxT, sims \in -1 .. MaxSims, sd \in Seeds :
            \E entropy \in Entropy(sd) : Enter(days, sims, sd, entropy)

Next == Call \/ Step \/ Finish \/ GlobalDraw

Spec == Init /\ [][Next]_vars

\* A call that passes the allocation of the paths.
CallDet == \E days \in 0 .. MaxT, sims \in 0 .. MaxSims, sd \in Seeds :
               \E entropy \in Entropy(sd) : Enter(days, sims, sd, entropy)

NextDet == CallDet \/ Step \/ Finish \/ GlobalDraw \/ Remember

SpecDet == Init /\ [][NextDet]_vars

\* The analytics of a session whose data is loaded.
InitAnalytics ==
    /\ price_df \in CalendarTables
    /\ weights \in WeightVectors
    /\ np_global = 0
    /\ daily_returns \in ReturnSeries
    /\ main = InitialMain
    /\ InitCalls

NextAnalytics == Analyze \/ MaxDrawdownCall \/ SortinoCall \/ CalmarCall

SpecAnalytics == InitAnalytics /\ [][NextAnalytics]_vars

\* The construction of the portfolio, before any data is loaded.
InitPortfolio ==
    /\ price_df = TableTwo
    /\ weights = <<R(1, 2), R(1, 2)>>
    /\ np_global = 0
    /\ daily_returns = <<>>
    /\ main = InitialMain
    /\ InitCalls

GuiEvent ==
    \/ \E name \in DOMAIN predefined_portfolios \cup {""}, yes \in BOOLEAN :
          LoadPredefined(name, yes)
    \/ AutoBalance
    \/ \E query \in Queries : SearchTicker(query)
    \/ AddTicker
    \/ \E ticker \in PopularTickers : QuickAddTicker(ticker)
    \/ DeferredAddTicker
    \/ \E sel \in 0 .. Len(portfolio_list) : RemoveTicker(sel)
    \/ \E yes \in BOOLEAN : ClearPortfolio(yes)
    \/ \E entry \in WeightEntries, sel \in 0 .. Len(portfolio_list) :
          SetWeight(entry, sel)
    \/ Confirm
    \/ Destroy
    \/ CloseWindow

NextPortfolio ==
    \/ OpenGui
    \/ GuiEvent
    \/ \E tickers \in TickerInputs, ws \in WeightInputs : GetUserPortfolio(tickers, ws)

SpecPortfolio == InitPortfolio /\ [][NextPortfolio]_vars

\* The menu loop of main() from its start.
InitMenu ==
    /\ price_df = TableTwo
    /\ weights = <<R(1, 2), R(1, 2)>>
    /\ np_global = 0
    /\ daily_returns = <<>>
    /\ main = InitialMain
    /\ InitCalls

NextMenu ==
    \E choice \in Choices :
        \/ LoadPortfolio(choice)
        \/ AnalyzeReport(choice)
        \/ Plot(choice)
        \/ TrainForecast(choice)
        \/ MonteCarlo(choice)
        \/ Scenario(choice)
        \/ Exit(choice)
        \/ InvalidChoice(choice)

SpecMenu == InitMenu /\ [][NextMenu]_vars

\* The functions of the loaded data on any mapping and any list of tickers.
InitCore ==
    /\ price_df = TableTwo
    /\ weights = <<R(1, 2), R(1, 2)>>
    /\ np_global = 0
    /\ daily_returns = <<>>
    /\ \E tickers \in TickerLists, keys \in TickerLists, period \in {"5y", "10y"} :
          main = [InitialMain EXCEPT
                    !.tickers = Value(tickers),
                    !.weights = Value(IF Len(tickers) = 1 THEN <<One>>
                                      ELSE <<R(3, 5), R(2, 5)>>),
                    !.data = Value(load_data(keys, period, {})),
                    !.current_period = period]
    /\ InitCalls

NextCore ==
    \/ AnalyzeCall
    \/ DrawdownCall
    \/ PriceTableCall
    \/ \E scenario_type \in ScenarioTypes : ScenarioCall(scenario_type)

SpecCore == InitCore /\ [][NextCore]_vars

\* ------------------------------------------------------------------------
\* Properties
\* ------------------------------------------------------------------------
LastRow(df) == df.rows[Len(df.rows)]

\* C1: a seeded call that returns, and an earlier seeded call of the same
\* session with the same T_days, n_sims and seed that returned, whatever
\* calls and global draws came between them, return the same dictionary:
\* asset paths, portfolio paths, terminal returns, VaR_95, CVaR_95, dates.
DeterminismC1 ==
    (/\ last.outcome = "returned"
     /\ remembered.outcome = "returned"
     /\ last.args = remembered.args
     /\ last.args.seed # NoSeed)
    => last.result = remembered.result

\* Two seeded calls with the same arguments and at least one step and one
\* simulation each have returned.
WitnessC1 ==
    /\ last.outcome = "returned"
    /\ remembered.outcome = "returned"
    /\ last.args = remembered.args
    /\ last.args.seed # NoSeed
    /\ last.args.T_days >= 1
    /\ last.args.n_sims >= 1

\* C2: while the loop runs and in the result returned, asset_paths[i, 0, n]
\* is the last price of column i, for every asset i and simulation n.
PathContinuityC2 ==
    /\ pc = "loop" =>
          \A i \in 1 .. n_assets : \A n \in 1 .. n_sims :
              /\ PathAt(asset_paths, i, 0, n) = LastRow(price_df)[i]
              /\ PathAt(asset_paths, i, 0, n) = S0[i]
    /\ last.outcome = "returned" =>
          \A i \in 1 .. n_assets : \A n \in 1 .. last.args.n_sims :
              PathAt(last.result.asset_paths, i, 0, n) = LastRow(price_df)[i]

\* A call of two steps and two simulations has returned.
WitnessC2 ==
    /\ last.outcome = "returned"
    /\ last.args.T_days = 2
    /\ last.args.n_sims = 2
    /\ ~HasNaN(LastRow(price_df))

\* The variate of step k for asset j and simulation n: the generator's
\* output number ((k - 1) * n_assets + (j - 1)) * n_sims + n since creation.
DrawOf(r0, k, j, n, nassets, nsims) ==
    NormalOf(RngSkip(r0, ((k - 1) * nassets + (j - 1)) * nsims + n))

\* C3: in the loop, with t - 1 steps done: 1 <= t <= T_days + 1; drift is
\* mu - cov[i,i] / 2 and L the lower-triangular Cholesky factor of cov; the
\* generator has produced exactly (t - 1) * n_assets * n_sims variates;
\* every column k in 1 .. t - 1 is column k - 1 times exp(drift + L @ Z_k)
\* with Z_k the k-th block of variates; the columns from t on are unwritten.
\* A call that returns has done exactly T_days steps.  (The diagonal of L is
\* positive when cov is a matrix of numbers.)
StepsC3 ==
    /\ pc = "loop" =>
          /\ t >= 1 /\ t <= T_days + 1
          /\ \A i \in 1 .. n_assets :
                /\ drift[i] = RSub(mu[i], RDiv(cov[i][i], F(2)))
                /\ ~IsNaN(cov[i][i]) => RGt(L[i][i], Zero)
                /\ \A j \in 1 .. n_assets : j > i => L[i][j] = Zero
          /\ L = Cholesky(cov)
          /\ rng = RngSkip(rng0, (t - 1) * n_assets * n_sims)
          /\ \A i \in 1 .. n_assets : \A n \in 1 .. n_sims :
                /\ \A k \in 1 .. t - 1 :
                      PathAt(asset_paths, i, k, n) =
                          RMul(PathAt(asset_paths, i, k - 1, n),
                               Exp(RAdd(drift[i],
                                        RSum([j \in 1 .. n_assets |->
                                                 RMul(L[i][j],
                                                      DrawOf(rng0, k, j, n, n_assets, n_sims))]))))
                /\ \A k \in t .. T_days : PathAt(asset_paths, i, k, n) = Uninit
    /\ last.outcome = "returned" => last.steps = last.args.T_days

\* The loop of a call of two steps, two simulations and two assets is over.
WitnessC3 ==
    /\ pc = "loop"
    /\ T_days = 2 /\ t = 3 /\ n_sims = 2 /\ n_assets = 2
    /\ ~HasNaN(S0)

\* C4: in the result returned, portfolio_paths[t, n] is the sum over the
\* columns i of the price table of weights[i] * asset_paths[i, t, n], for
\* every t in 0 .. T_days and simulation n.
PortfolioC4 ==
    last.outcome = "returned" =>
        /\ Len(weights) = n_assets
        /\ \A k \in 0 .. last.args.T_days : \A n \in 1 .. last.args.n_sims :
              last.result.portfolio_paths[k + 1][n] =
                  IF n_assets = 1
                  THEN RMul(weights[1], PathAt(last.result.asset_paths, 1, k, n))
                  ELSE RAdd(RMul(weights[1], PathAt(last.result.asset_paths, 1, k, n)),
                            RMul(weights[2], PathAt(last.result.asset_paths, 2, k, n)))

\* A call over two assets with unequal weights has returned paths that
\* differ between the assets.
WitnessC4 ==
    /\ last.outcome = "returned"
    /\ n_assets = 2
    /\ weights[1] # weights[2]
    /\ last.args.T_days >= 1
    /\ last.args.n_sims >= 1
    /\ ~HasNaN(LastRow(price_df))
    /\ PathAt(last.result.asset_paths, 1, last.args.T_days, 1)
           # PathAt(last.result.asset_paths, 2, last.args.T_days, 1)
IsFloat(v) == v \in Int \X Int

\* C5: the result of a call with T_days > 0 and n_sims > 0 holds asset
\* paths of shape n_assets x (T_days + 1) x n_sims, portfolio paths of
\* shape (T_days + 1) x n_sims, terminal returns and terminal log returns
\* of length n_sims, scalars VaR_95 and CVaR_95 and T_days + 1 dates.
ShapesC5 ==
    (last.outcome = "returned" /\ last.args.T_days > 0 /\ last.args.n_sims > 0) =>
        LET res == last.result
            T == last.args.T_days
            N == last.args.n_sims
        IN  /\ Len(res.asset_paths) = n_assets
            /\ \A i \in 1 .. n_assets :
                  /\ Len(res.asset_paths[i]) = T + 1
                  /\ \A k \in 1 .. T + 1 :
                        /\ Len(res.asset_paths[i][k]) = N
                        /\ \A n \in 1 .. N : res.asset_paths[i][k][n] # Uninit
            /\ Len(res.portfolio_paths) = T + 1
            /\ \A k \in 1 .. T + 1 : Len(res.portfolio_paths[k]) = N
            /\ Len(res.terminal_returns) = N
            /\ Len(res.terminal_log_returns) = N
            /\ IsFloat(res.VaR_95)
            /\ IsFloat(res.CVaR_95)
            /\ Len(res.dates) = T + 1

\* A call with two steps and two simulations over two assets has returned.
WitnessC5 ==
    /\ last.outcome = "returned"
    /\ last.args.T_days = 2
    /\ last.args.n_sims = 2
    /\ n_assets = 2

\* Strictly positive starting prices and non-negative weights, one per
\* asset, that sum to 1; the estimated covariance is a matrix of numbers.
PositiveInputs ==
    /\ Len(weights) = n_assets
    /\ ~Estimates[price_df].cov_nan
    /\ \A i \in 1 .. n_assets :
          /\ RGt(LastRow(price_df)[i], Zero)
          /\ RGe(weights[i], Zero)
    /\ RSum(weights) = One

LossesOf(res) == [n \in 1 .. Len(res.terminal_log_returns) |->
                     RNeg(res.terminal_log_returns[n])]

\* C7: in a result over at least one simulation whose losses are all
\* numbers, CVaR_95 >= VaR_95.
CVaRGeVaRC7 ==
    (/\ last.outcome = "returned"
     /\ last.args.n_sims >= 1
     /\ ~HasNaN(LossesOf(last.result)))
    => RGe(last.result.CVaR_95, last.result.VaR_95)

\* A result with two different losses, whose CVaR_95 exceeds its VaR_95.
WitnessC7 ==
    /\ last.outcome = "returned"
    /\ last.args.n_sims = 2
    /\ ~HasNaN(LossesOf(last.result))
    /\ LossesOf(last.result)[1] # LossesOf(last.result)[2]
    /\ RGt(last.result.CVaR_95, last.result.VaR_95)

\* C8: a call over at least one simulation that returns has a loss that
\* meets the threshold loss >= VaR_95, so that its CVaR_95 is the mean of a
\* non-empty tail; with an empty tail the call raises.
NonEmptyTailC8 ==
    (last.outcome = "returned" /\ last.args.n_sims >= 1) =>
        \E n \in 1 .. last.args.n_sims :
            RGe(LossesOf(last.result)[n], last.result.VaR_95)

InvalidParameters(days, sims) ==
    days <= 0 \/ sims <= 0 \/ Len(weights) # n_assets

\* C9: a call with T_days <= 0, n_sims <= 0 or weights of another length
\* than the assets never enters the loop; it raises, before the estimation
\* of line 20, and no step has run.
ParameterViolationsC9 ==
    /\ pc = "loop" => ~InvalidParameters(T_days, n_sims)
    /\ (last.outcome # "none" /\ InvalidParameters(last.args.T_days, last.args.n_sims)) =>
          /\ last.outcome = "raised"
          /\ last.line < 20
          /\ last.steps = 0

\* The determinant, by expansion along the first row.
RECURSIVE Det(_)
Det(m) ==
    IF Len(m) = 1 THEN m[1][1]
    ELSE RSum([j \in 1 .. Len(m) |->
                  RMul(RMul(IF j % 2 = 1 THEN One ELSE F(-1), m[1][j]),
                       Det([r \in 1 .. Len(m) - 1 |->
                               [q \in 1 .. Len(m) - 1 |->
                                   m[r + 1][IF q < j THEN q ELSE q + 1]]]))])

\* Sylvester's criterion: every leading principal minor is > 0.
LeadingMinorsPositive(c) ==
    \A k \in 1 .. Len(c) :
        RGt(Det([r \in 1 .. k |-> [q \in 1 .. k |-> c[r][q]]]), Zero)

OverlappingDates(df) == Len(Dropna(df.rows))

\* C11: on a price table of fewer than 2 tickers, or with fewer than 2
\* dates common to all its tickers, no call enters the loop or returns a
\* result: the estimation fails.
PreconditionC11 ==
    (n_assets < 2 \/ OverlappingDates(price_df) < 2) =>
        /\ pc = "idle"
        /\ last.outcome # "returned"

\* C12: the return tables hold only dates on which every asset has a
\* value: no row of the log returns the simulator estimates from, and, for
\* tickers with two common dates or more, no row of the returns_df that
\* analyze_portfolio aggregates, holds a NaN.
InnerJoinC12 ==
    /\ \A k \in 1 .. Len(LogRet(price_df)) : ~HasNaN(LogRet(price_df)[k])
    /\ (analysis.outcome = "returned" /\ OverlappingDates(price_df) >= 2) =>
          \A k \in 1 .. Len(analysis.result.returns_df) :
              ~HasNaN(analysis.result.returns_df[k])

\* C13: in the loop every mu[i] is the mean daily log return of asset i
\* over the complete rows when that mean is at most 0.0003, and 0.0003
\* when it is greater (NaN when there is no complete row); the drift of
\* the update is taken from this mu.
DriftCapC13 ==
    pc = "loop" =>
        \A i \in 1 .. n_assets :
            LET m == Mean(Column(LogRet(price_df), i))
            IN  /\ IsNaN(m) => IsNaN(mu[i])
                /\ RLe(m, R(3, 10000)) => mu[i] = m
                /\ RGt(m, R(3, 10000)) => mu[i] = R(3, 10000)
                /\ ~IsNaN(m) => RLe(mu[i], R(3, 10000))
                /\ drift[i] = RSub(mu[i], RMul(Half, cov[i][i]))

\* A call on an asset whose mean daily log return is 3/2 has done a step
\* with the mean capped.
WitnessC13 ==
    /\ pc = "loop"
    /\ t >= 2
    /\ \E i \in 1 .. n_assets :
          /\ RGt(Mean(Column(LogRet(price_df), i)), R(3, 10000))
          /\ mu[i] = R(3, 10000)

\* The value of one unit after the first k returns of the series.
RECURSIVE CumulativeAt(_, _)
CumulativeAt(rs, k) ==
    IF k = 0 THEN One ELSE RMul(CumulativeAt(rs, k - 1), RAdd(One, rs[k]))

\* The greatest value on the dates 1 .. k.
PeakAt(rs, k) ==
    CumulativeAt(rs, CHOOSE j \in 1 .. k :
                         \A i \in 1 .. k : RGe(CumulativeAt(rs, j), CumulativeAt(rs, i)))

DrawdownAt(rs, k) == RDiv(RSub(CumulativeAt(rs, k), PeakAt(rs, k)), PeakAt(rs, k))

\* A series of at least one daily return, each above -100%.
DailyReturns(rs) == rs # <<>> /\ \A k \in 1 .. Len(rs) : RGt(rs[k], F(-1))

\* C14: for a series of at least one daily return, each above -100%,
\* calculate_max_drawdown returns a value <= 0 that is the least over the
\* dates k of (cumulative_k - running_max_k) / running_max_k; so is the
\* Max Drawdown of an analysis whose portfolio returns are such a series.
MaxDrawdownC14 ==
    /\ (helper.fn = "calculate_max_drawdown" /\ DailyReturns(daily_returns)) =>
          /\ RLe(helper.value, Zero)
          /\ \E k \in 1 .. Len(daily_returns) :
                helper.value = DrawdownAt(daily_returns, k)
          /\ \A k \in 1 .. Len(daily_returns) :
                RLe(helper.value, DrawdownAt(daily_returns, k))
    /\ (analysis.outcome = "returned"
          /\ DailyReturns(analysis.result.portfolio_returns)) =>
          /\ RLe(analysis.result.max_drawdown, Zero)
          /\ \A k \in 1 .. Len(analysis.result.portfolio_returns) :
                RLe(analysis.result.max_drawdown,
                    DrawdownAt(analysis.result.portfolio_returns, k))

\* The maximum drawdown of a series that rises, falls and recovers in part
\* has been computed as -1/2.
WitnessC14 ==
    /\ helper.fn = "calculate_max_drawdown"
    /\ daily_returns = <<One, R(-1, 2), R(1, 2)>>
    /\ helper.value = R(-1, 2)

FallsBelowEarlier(rs) ==
    \E j \in 1 .. Len(rs) : \E k \in j + 1 .. Len(rs) :
        RLt(CumulativeAt(rs, k), CumulativeAt(rs, j))

\* C15: for a series of at least one daily return, each above -100%, the
\* maximum drawdown is 0 exactly when the cumulative value from the first
\* date on never decreases, and it is < 0 when the cumulative value falls
\* below an earlier one.
DrawdownSignC15 ==
    (helper.fn = "calculate_max_drawdown" /\ DailyReturns(daily_returns)) =>
        /\ helper.value = Zero <=>
              \A k \in 2 .. Len(daily_returns) :
                  RGe(CumulativeAt(daily_returns, k), CumulativeAt(daily_returns, k - 1))
        /\ FallsBelowEarlier(daily_returns) => RLt(helper.value, Zero)

\* A series that stays level, doubles and halves: its cumulative value
\* falls back to the starting value and the maximum drawdown is < 0.
WitnessC15 ==
    /\ helper.fn = "calculate_max_drawdown"
    /\ daily_returns = <<Zero, One, R(-1, 2)>>
    /\ FallsBelowEarlier(daily_returns)
    /\ RLt(helper.value, Zero)

\* C16: an analysis whose annualized volatility is 0 returns, and its
\* Sharpe ratio is the undefined sentinel NaN that the Sortino and Calmar
\* ratios use.
SharpeSentinelC16 ==
    (analysis.outcome # "none" /\ Len(weights) = n_assets
        /\ Analyses[price_df][weights].annualized_volatility = Zero) =>
        /\ analysis.outcome = "returned"
        /\ analysis.result.sharpe_ratio = NaN

\* The negative returns of a series.
NegativeReturns(rs) == SelectSeq(rs, LAMBDA v : RLt(v, Zero))

\* The annualized sample deviation of a series, from the sums of its values
\* and of their squares; NaN under two values.
AnnualizedDeviation(xs) ==
    LET n == Len(xs)
        total == RSum(xs)
        squares == RSum([k \in 1 .. n |-> RMul(xs[k], xs[k])])
    IN  IF n < 2 THEN NaN
        ELSE RMul(Sqrt(RDiv(RSub(squares, RDiv(RMul(total, total), F(n))), F(n - 1))),
                  Sqrt(F(252)))

\* C17: calculate_sortino_ratio returns NaN for a series without a negative
\* return.  With negative returns whose annualized deviation d is a number
\* other than 0 it returns (mean * 252 - risk_free_rate) / d; with one
\* negative return (no deviation) or equal negative returns (d = 0) the
\* quotient is undefined and it returns NaN.
SortinoC17 ==
    helper.fn = "calculate_sortino_ratio" =>
        LET negative == NegativeReturns(daily_returns)
            d == AnnualizedDeviation(negative)
            excess == RSub(RMul(RDiv(RSum(daily_returns), F(Len(daily_returns))),
                                F(252)),
                           RiskFreeRate)
        IN  /\ Len(negative) = 0 => helper.value = NaN
            /\ (Len(negative) > 0 /\ (IsNaN(d) \/ d = Zero)) => helper.value = NaN
            /\ (Len(negative) > 0 /\ ~IsNaN(d) /\ d # Zero) =>
                  /\ ~IsNaN(helper.value)
                  /\ RMul(helper.value, d) = excess

\* The Sortino ratio of a series of three days without a loss has been
\* computed as NaN.
WitnessC17 ==
    /\ helper.fn = "calculate_sortino_ratio"
    /\ daily_returns = <<R(1, 2), Zero, One>>
    /\ helper.value = NaN

\* C18: calculate_calmar_ratio returns NaN when the maximum drawdown of the
\* series is exactly 0; when it is a number below 0 it returns a number r
\* with r * |max drawdown| = mean * 252; when the maximum drawdown is NaN,
\* so is the ratio.
CalmarC18 ==
    helper.fn = "calculate_calmar_ratio" =>
        LET max_dd == calculate_max_drawdown(daily_returns)
            annual == RMul(RDiv(RSum(daily_returns), F(Len(daily_returns))), F(252))
        IN  /\ max_dd = Zero => helper.value = NaN
            /\ IsNaN(max_dd) => helper.value = NaN
            /\ RLt(max_dd, Zero) =>
                  /\ ~IsNaN(helper.value)
                  /\ RMul(helper.value, RNeg(max_dd)) = annual
            /\ ~RGt(max_dd, Zero)

\* The Calmar ratio of a series that never falls, with a maximum drawdown
\* of exactly 0 and a positive mean, has been computed as NaN.
WitnessC18 ==
    /\ helper.fn = "calculate_calmar_ratio"
    /\ daily_returns = <<R(1, 2), Zero, One>>
    /\ calculate_max_drawdown(daily_returns) = Zero
    /\ helper.value = NaN

\* The sample variance of a series of numbers, from the sums of its values
\* and of their squares.
SampleVariance(xs) ==
    LET n == Len(xs)
        total == RSum(xs)
        squares == RSum([k \in 1 .. n |-> RMul(xs[k], xs[k])])
    IN  IF n < 2 THEN NaN
        ELSE RDiv(RSub(squares, RDiv(RMul(total, total), F(n))), F(n - 1))

\* An analysis has returned for returns that have a value for every asset on
\* every date and a portfolio variance above 0.
ValidCovariance ==
    /\ analysis.outcome = "returned"
    /\ \A k \in 1 .. Len(analysis.result.returns_df) :
          ~HasNaN(analysis.result.returns_df[k])
    /\ RGt(SampleVariance(analysis.result.portfolio_returns), Zero)

\* |a - b| <= tol
Within(a, b, tol) == RLe(RSub(a, b), tol) /\ RLe(RSub(b, a), tol)

\* C19 as stated: the risk contributions of an analysis sum to the
\* portfolio's annualized volatility, within the resolution of the square
\* root.
RiskSumAnnualizedC19 ==
    ValidCovariance =>
        Within(RSum(analysis.result.risk_contribution),
               analysis.result.annualized_volatility, Half)

\* C19, amended: the risk contributions of an analysis sum to the daily
\* volatility sqrt(w' Cov w) of the portfolio: the sum times the volatility
\* is the variance w' Cov w, which is the sample variance of the portfolio
\* returns, and the sum is within the resolution of the square root of the
\* volatility; the annualized volatility is sqrt(252) times that
\* volatility.
RiskDecompositionC19 ==
    ValidCovariance =>
        LET variance == SampleVariance(analysis.result.portfolio_returns)
            total == RSum(analysis.result.risk_contribution)
        IN  /\ Len(analysis.result.risk_contribution) = n_assets
            /\ RMul(total, Sqrt(variance)) = variance
            /\ Within(total, Sqrt(variance), Half)
            /\ analysis.result.annualized_volatility
                   = RMul(Sqrt(variance), Sqrt(F(252)))

\* An analysis of two assets with unequal weights has returned risk
\* contributions that differ between the assets.
WitnessC19 ==
    /\ ValidCovariance
    /\ n_assets = 2
    /\ weights[1] # weights[2]
    /\ analysis.result.risk_contribution[1] # analysis.result.risk_contribution[2]
    /\ RGt(analysis.result.risk_contribution[2], Zero)

\* C20: every weight vector that the construction of the portfolio hands on
\* sums to 1.0, for get_user_portfolio and for select_portfolio_gui however
\* the window was left (Confirm or closing it).  Stated for the vectors
\* that hold a number for every ticker and at least one ticker.
AllSet(ws) == ws # <<>> /\ \A k \in 1 .. Len(ws) : ws[k] # None
NormalizedWeightsC20 ==
    (portfolio.outcome = "returned" /\ AllSet(portfolio.weights))
        => RSum(portfolio.weights) = One

\* C27: in PortfolioSelectorGUI, after any sequence of
\* load_predefined_portfolio, add_ticker, quick_add_ticker, set_weight,
\* auto_balance, remove_ticker and clear_portfolio, selected_tickers,
\* selected_weights and the portfolio listbox have the same length, and
\* row k of the listbox shows ticker k with weight k.
ListsConsistentC27 ==
    window = "open" =>
        /\ Len(selected_weights) = Len(selected_tickers)
        /\ Len(portfolio_list) = Len(selected_tickers)
        /\ \A k \in 1 .. Len(selected_tickers) :
              portfolio_list[k] = <<selected_tickers[k], selected_weights[k]>>

\* A ticker was removed, another added behind the remaining one, and the
\* weight of the first row set while the last row has none.
WitnessC27 ==
    /\ window = "open"
    /\ selected_tickers = <<"AGG", "TLT">>
    /\ selected_weights = <<F(3), None>>
    /\ portfolio_list = << <<"AGG", F(3)>>, <<"TLT", None>> >>

\* C28: confirm normalizes the weights and closes the window only when the
\* portfolio is non-empty, no weight is None and the total of the weights
\* is positive (otherwise the lists and the window stay as they are), and
\* after a successful confirm every weight is > 0.
ConfirmSucceeds == window = "open" /\ window' = "dialog"

ConfirmGuardC28 ==
    [][ConfirmSucceeds =>
          /\ selected_tickers # <<>>
          /\ AllSet(selected_weights)
          /\ RGt(RSum(selected_weights), Zero)
          /\ selected_tickers' = selected_tickers
          /\ selected_weights' = Normalized(selected_weights)
          /\ \A k \in 1 .. Len(selected_weights') :
                RGt(selected_weights'[k], Zero)]_vars

\* C29: the deferred add_ticker of quick_add_ticker(t) never adds another
\* ticker than t: when it runs, selected_tickers stays as it is or gains t
\* at its end, however the callback is interleaved with searches and other
\* quick-adds.
DeferredRuns == scheduled # <<>> /\ scheduled' = Tail(scheduled) /\ window' = window

QuickAddC29 ==
    [][DeferredRuns =>
          \/ selected_tickers' = selected_tickers
          \/ selected_tickers' = Append(selected_tickers, Head(scheduled))]_vars

\* C21: generate_analysis_report is a pure presentation function: it
\* performs no persistence and has no effect besides its return value; no
\* file is written by it.
ReportIsPureC21 == \A f \in files : f.by # "generate_analysis_report"

\* C22: when an operation chosen in the menu fails with a fatal error, the
\* menu layer returns to the prompt with the session state it had before
\* the choice; the menu loop does not terminate.
MenuSurvivesC22 ==
    [][(loop = "prompt" /\ turn'.error # "")
          => (loop' = "prompt" /\ main' = main)]_vars

\* C24: a choice of 2 to 8 before a portfolio is loaded, or a choice outside
\* 1 to 9, prints a message and returns to the prompt with the variables of
\* main unchanged and without a call of any function.
OptionsOfData == {"2", "3", "4", "5", "6", "7", "8"}

Unloaded == main.data = NoValue /\ main.portfolio_series = NoValue

UnloadedChoiceC24 ==
    [][(/\ loop = "prompt"
        /\ \/ Unloaded /\ turn'.choice \in OptionsOfData
           \/ turn'.choice \notin OptionsOfData \cup {"1", "9"})
          => /\ main' = main
             /\ loop' = "prompt"
             /\ turn'.calls = <<>>
             /\ turn'.printed # ""
             /\ turn'.error = ""]_vars

\* Option 6 was chosen with nothing loaded.
WitnessC24 ==
    /\ loop = "prompt"
    /\ main = InitialMain
    /\ turn.choice = "6"
    /\ turn.printed = LoadFirst

\* C25: at every prompt data is set if and only if tickers, weights and
\* portfolio_series are set, data then holds a table for every selected
\* ticker, and the guards of options 2 to 8 agree.
LoadedTogetherC25 ==
    loop = "prompt" =>
        /\ (main.data = NoValue) <=> (main.tickers = NoValue)
        /\ (main.data = NoValue) <=> (main.weights = NoValue)
        /\ (main.data = NoValue) <=> (main.portfolio_series = NoValue)
        /\ main.data # NoValue =>
              \A k \in 1 .. Len(main.tickers.v) :
                  main.tickers.v[k] \in Range(Keys(main.data.v))
        /\ \A option \in OptionsOfData : NotLoaded(option) <=> main.data = NoValue

\* A portfolio was loaded and its data loaded again for another period.
WitnessC25 ==
    /\ loop = "prompt"
    /\ main.data # NoValue
    /\ main.current_period = "5y"
    /\ turn.calls = <<"load_data", "build_portfolio_series", "analyze_portfolio",
                      "generate_analysis_report">>

\* C26: at every prompt data and portfolio_series are those of
\* current_period; option 2 loads data again only for a period that differs
\* from current_period, builds portfolio_series from it and sets
\* current_period; "keep current" or an invalid period leaves the three as
\* they are.
ChosenPeriod(period_choice, current_period) ==
    CASE period_choice = "1" -> "5y"
      [] period_choice = "2" -> "10y"
      [] period_choice = "3" -> "15y"
      [] period_choice = "4" -> "max"
      [] OTHER -> current_period

OfCurrentPeriod ==
    (loop = "prompt" /\ main.data # NoValue) =>
        /\ \A k \in 1 .. Len(main.data.v) :
              main.data.v[k] = History(main.tickers.v[k], main.current_period)
        /\ main.portfolio_series =
              Value(Dot(PriceTable(main.data.v, main.tickers.v).rows, main.weights.v))

AnalysisTurn ==
    /\ loop = "prompt" /\ loop' = "prompt"
    /\ main.data # NoValue
    /\ turn'.choice = "2"
    /\ "analyze_portfolio" \in Range(turn'.calls)

CurrentPeriodC26 ==
    /\ []OfCurrentPeriod
    /\ [][AnalysisTurn =>
             LET selected_period == ChosenPeriod(turn'.input, main.current_period)
             IN  IF selected_period = main.current_period
                 THEN /\ main' = main
                      /\ "load_data" \notin Range(turn'.calls)
                 ELSE /\ "load_data" \in Range(turn'.calls)
                      /\ main'.current_period = selected_period
                      /\ main'.data # main.data]_vars

\* The data of the period "5y" was kept by choice "5".
WitnessC26 ==
    /\ loop = "prompt"
    /\ main.current_period = "5y"
    /\ turn.choice = "2"
    /\ turn.input = "5"
    /\ turn.calls = <<"analyze_portfolio", "generate_analysis_report">>

\* C23: the asset to which weights[i] is applied in every call of the core
\* (analyze_portfolio, plot_drawdown, the price table of the Monte Carlo
\* simulation) is ticker i of the list of tickers chosen by the user,
\* whatever the order and the keys of the mapping data.
ExplicitOrderC23 ==
    (turn.error = "" /\ turn.applied # <<>>) => turn.applied = main.tickers.v

\* C30: run_scenario never modifies the data it is given; the mapping it
\* returns has the same tickers, each Close multiplied by 1.15 (AI_BUBBLE),
\* 0.85 (CRASH) or 1.05 (RECOVERY) and every other column unchanged, and an
\* unrecognised scenario type yields an unmodified copy.
FactorOf(scenario_type) ==
    CASE scenario_type = "AI_BUBBLE" -> R(115, 100)
      [] scenario_type = "CRASH" -> R(85, 100)
      [] scenario_type = "RECOVERY" -> R(105, 100)
      [] OTHER -> One

ScenarioRuns == "run_scenario" \in Range(turn'.calls)

ScenarioFrameC30 ==
    [][ScenarioRuns =>
          /\ main'.data = main.data
          /\ Keys(main'.scenario.v) = Keys(main.data.v)
          /\ \A k \in 1 .. Len(main.data.v) :
                LET df == main.data.v[k]
                    sim == main'.scenario.v[k]
                IN  /\ sim.Open = df.Open
                    /\ Len(sim.Close) = Len(df.Close)
                    /\ \A d \in 1 .. Len(df.Close) :
                          sim.Close[d] = RMul(df.Close[d], FactorOf(turn'.input))]_vars

\* A crash scenario was run: the first Close of the result is 0.85 times
\* the original.
WitnessC30 ==
    /\ turn.calls = <<"run_scenario">>
    /\ turn.input = "CRASH"
    /\ main.scenario # NoValue
    /\ main.scenario.v[1].Close[1] = RMul(main.data.v[1].Close[1], R(17, 20))
=============================================================================
